---- MODULE Spec2Model ----
(***************************************************************************)
(* A model of the NIH ExPORTER pipeline's table operations: the per-folder *)
(* append of the preprocess stage, the exact-duplicate eliminators, the    *)
(* PRJ/PRJABS linker, the outcome aggregator, the keyword enrichment with  *)
(* its worker threads, the training filter, the keyword variant generator  *)
(* and keyword list, the steps of the preprocess stage with its column     *)
(* renaming, the CSV loader with its reader threads, and a run of the four *)
(* stages one after the other.  Each component has its own specification   *)
(* over the shared variables.                                              *)
(*                                                                         *)
(* A table (pandas DataFrame) is a record [cols, rows]: cols is the        *)
(* ordered sequence of column names, rows the ordered sequence of rows,    *)
(* each row a function from the column names to cells.  A cell is a record *)
(* [k, s]: k is the Python type of the value ("str", "int", "list",        *)
(* "tuple", "null" for NaN/None) and s its characters (one-character       *)
(* strings), so that str(), strip() and upper() are computed, not assumed. *)
(***************************************************************************)
EXTENDS Naturals, Integers, Sequences, FiniteSets, TLC

VARIABLES
    pc,                  \* which call has been made ("start", then the callee's name)
    config,              \* the configuration dict (force_append)
    dataframes,          \* folder -> file -> table, as ordered sequences (dict order)
    appended_dict,       \* folder -> appended table
    summary_dict,        \* folder -> append summary
    linked_dict,         \* "PRJ_PRJABS" -> joined table
    linked_summary_dict, \* "PRJ_PRJABS" -> link summary
    aggregate_df,        \* the aggregate table
    aggregate_summary,   \* count label -> dedup statistics
    dedupe_df,           \* the table a duplicate eliminator returns
    dedupe_summary,      \* the statistics a duplicate eliminator returns
    count_df,            \* the count table count_unique_pairs returns
    dedup_summary,       \* the statistics count_unique_pairs returns
    raised,              \* the exception that left the call, "None" if none did
    appended_in,         \* history: appended_dict as it was when the call was made
    enrich_df,           \* the table enrich_with_keyword_metrics works on, in place
    chunks,              \* the chunks of combined_text, in submission order
    running,             \* the chunks a worker thread is processing
    futures,             \* chunk -> its process_batch result, once a worker has finished it
    completed,           \* history: the chunks in the order the workers finished them
    enrich_result,       \* what enrich_with_keyword_metrics returned
    keywords_df,         \* the table filter_df is given, with its row index
    cutoff_value,        \* the cutoff argument of filter_df: <<n>>, or <<>> for None
    filter_result,       \* what filter_df returned: MLdf, MLdf_dropped, finalize_summary
    keyword,             \* the seed term given to generate_keyword_variants, as its characters
    variants,            \* the variants generate_keyword_variants returned, as a set
    load_summary,        \* preprocess: the per-folder load statistics of summarize_csv_load
    rename_dict,         \* preprocess: the loaded tables after rename_columns
    rename_summary,      \* preprocess: the per-file column changes of rename_columns
    metadata_raw,        \* preprocess: what assemble_preprocessing_metadata returned
    preprocess_summary,  \* preprocess: what build_preprocessing_summary returned
    logger,              \* whether the caller passed a logger: FALSE is logger=None
    categories,          \* pipeline run: loaded category -> whether its files share one column set
    pickles,             \* pipeline run: the categories preprocess appended and saved
    has_linked,          \* pipeline run: whether merge_linked_dataframes returned PRJ_PRJABS
    passes,              \* pipeline run: the passes made over the data so far, in order
    keywords,            \* enrich_keywords: the list of seed terms
    remove_stopwords,    \* enrich_keywords: whether stopword seeds are dropped
    enriched,            \* enrich_keywords: the returned list
    disk,                \* load_csv_files: the subfolders and their CSV files on disk
    folder_at,           \* load_csv_files: position in subfolders
    read_running,        \* load_csv_files: files a reader thread is reading
    read_futures,        \* load_csv_files: file position -> result of _read_and_store
    read_order,          \* load_csv_files: file positions in order of completion
    yielded,             \* load_csv_files: results executor.map has yielded
    load_result          \* load_csv_files: the mapping being built

enrichVars == <<enrich_df, chunks, running, futures, completed, enrich_result>>

finalizeVars == <<keywords_df, cutoff_value, filter_result>>

keywordVars == <<keyword, variants>>

preprocessVars == <<load_summary, rename_dict, rename_summary, metadata_raw,
                    preprocess_summary>>

loggerVars == <<logger>>

pipelineVars == <<categories, pickles, has_linked, passes>>

keywordSetVars == <<keywords, remove_stopwords, enriched>>

loaderVars == <<disk, folder_at, read_running, read_futures, read_order, yielded, load_result>>

vars == <<pc, config, dataframes, appended_dict, summary_dict, linked_dict,
          linked_summary_dict, aggregate_df, aggregate_summary, dedupe_df,
          dedupe_summary, count_df, dedup_summary, raised, appended_in,
          enrichVars,
          finalizeVars,
          keywordVars,
          preprocessVars,
          loggerVars,
          pipelineVars,
          keywordSetVars,
          loaderVars>>

-----------------------------------------------------------------------------
(* Generic helpers *)

Range(f) == {f[i] : i \in DOMAIN f}

\* All sequences over S of length 0..n
SeqsUpTo(S, n) == UNION {[1..k -> S] : k \in 0..n}

RECURSIVE SumSeq(_)
SumSeq(s) == IF s = <<>> THEN 0 ELSE Head(s) + SumSeq(Tail(s))

\* The empty dict {}
EmptyDict == [x \in {} |-> 0]

\* config.get(key, default)
ConfigGet(cfg, key, default) == IF key \in DOMAIN cfg THEN cfg[key] ELSE default

DigitChars == <<"0", "1", "2", "3", "4", "5", "6", "7", "8", "9">>

\* The character of a decimal digit
Digit(n) == DigitChars[n + 1]

-----------------------------------------------------------------------------
(* Cells and their string conversions *)

StrCell(s) == [k |-> "str", s |-> s]
IntCell(s) == [k |-> "int", s |-> s]
ListCell(s) == [k |-> "list", s |-> s]
TupleCell(s) == [k |-> "tuple", s |-> s]
NullCell == [k |-> "null", s |-> <<>>]

\* str(x) for a cell: a string is itself, an int its digits, NaN is "nan"
PyStr(c) ==
    CASE c.k = "str" -> c.s
      [] c.k = "int" -> c.s
      [] c.k = "null" -> <<"n", "a", "n">>
      [] c.k = "list" -> <<"[">> \o c.s \o <<"]">>
      [] OTHER -> <<"(">> \o c.s \o <<")">>

IsSpace(ch) == ch \in {" ", "\t", "\n"}

RECURSIVE LStrip(_)
LStrip(s) == IF s # <<>> /\ IsSpace(Head(s)) THEN LStrip(Tail(s)) ELSE s

RECURSIVE RStrip(_)
RStrip(s) ==
    IF s # <<>> /\ IsSpace(s[Len(s)]) THEN RStrip(SubSeq(s, 1, Len(s) - 1)) ELSE s

\* str.strip()
Strip(s) == RStrip(LStrip(s))

UpperChar(ch) ==
    CASE ch = "a" -> "A"
      [] ch = "b" -> "B"
      [] ch = "n" -> "N"
      [] ch = "x" -> "X"
      [] ch = "y" -> "Y"
      [] OTHER -> ch

\* str.upper()
Upper(s) == [i \in 1..Len(s) |-> UpperChar(s[i])]

\* Faulty variant of NormalizeCell: the case is kept
NormalizeCellCaseKept(c) == StrCell(Strip(PyStr(c)))

\* .astype(str).str.strip().str.upper() on one cell
NormalizeCell(c) == StrCell(Upper(Strip(PyStr(c))))

-----------------------------------------------------------------------------
(* Tables *)

Table(cols, rows) == [cols |-> cols, rows |-> rows]

ColSet(df) == Range(df.cols)

NRows(df) == Len(df.rows)

NCols(df) == Len(df.cols)

\* A row restricted to the columns in subset
Project(row, subset) == [c \in subset |-> row[c]]

\* The distinct elements of a sequence of column names, in order of first appearance
RECURSIVE UniqueInOrder(_)
UniqueInOrder(s) ==
    IF s = <<>> THEN <<>>
    ELSE LET init == UniqueInOrder(SubSeq(s, 1, Len(s) - 1))
             last == s[Len(s)]
         IN IF last \in Range(init) THEN init ELSE Append(init, last)

RECURSIVE ConcatSeqs(_)
ConcatSeqs(ss) == IF ss = <<>> THEN <<>> ELSE Head(ss) \o ConcatSeqs(Tail(ss))

\* A row widened to the columns cols, NaN where the row has no such column
NullFill(row, cols) ==
    [c \in cols |-> IF c \in DOMAIN row THEN row[c] ELSE NullCell]

\* Faulty variant of PdConcat: only the columns every table has are kept
PdConcatInner(dfs) ==
    LET common == {c \in UNION {ColSet(dfs[i]) : i \in DOMAIN dfs} :
                      \A i \in DOMAIN dfs : c \in ColSet(dfs[i])}
        cols == SelectSeq(dfs[1].cols, LAMBDA c : c \in common)
    IN Table(cols,
             ConcatSeqs([i \in DOMAIN dfs |->
                 [j \in 1..Len(dfs[i].rows) |-> Project(dfs[i].rows[j], common)]]))

\* pd.concat(dfs, ignore_index=True): outer join on the columns, rows in list order
PdConcat(dfs) ==
    LET cols == UniqueInOrder(ConcatSeqs([i \in DOMAIN dfs |-> dfs[i].cols]))
    IN Table(cols,
             ConcatSeqs([i \in DOMAIN dfs |->
                 [j \in 1..Len(dfs[i].rows) |-> NullFill(dfs[i].rows[j], Range(cols))]]))

\* df.drop(columns=existing, inplace=True)
DropColumns(df, drop) ==
    LET kept == SelectSeq(df.cols, LAMBDA c : c \notin drop)
    IN Table(kept, [i \in 1..Len(df.rows) |-> Project(df.rows[i], Range(kept))])

\* Faulty variant of RenameColumns: the renamed columns are moved behind the others
RenameColumnsMoved(df, mapping) ==
    LET kept == SelectSeq(df.cols, LAMBDA c : c \notin DOMAIN mapping)
        moved == SelectSeq(df.cols, LAMBDA c : c \in DOMAIN mapping)
        cols == kept \o [i \in 1..Len(moved) |-> mapping[moved[i]]]
        OldName(n) == IF n \in Range(kept) THEN n
                      ELSE moved[CHOOSE i \in 1..Len(moved) : mapping[moved[i]] = n]
    IN Table(cols, [i \in 1..Len(df.rows) |-> [n \in Range(cols) |-> df.rows[i][OldName(n)]]])

\* df.rename(columns=mapping)
RenameColumns(df, mapping) ==
    LET NewName(c) == IF c \in DOMAIN mapping THEN mapping[c] ELSE c
        cols == [i \in 1..Len(df.cols) |-> NewName(df.cols[i])]
        OldName(n) == df.cols[CHOOSE i \in 1..Len(cols) : cols[i] = n]
    IN Table(cols, [i \in 1..Len(df.rows) |-> [n \in Range(cols) |-> df.rows[i][OldName(n)]]])

-----------------------------------------------------------------------------
(* Duplicate Eliminator: DataFrame.duplicated and DataFrame.drop_duplicates *)

\* The rows of a sequence whose mask entry is TRUE, in order
RECURSIVE SelectByMask(_, _)
SelectByMask(rows, mask) ==
    IF rows = <<>> THEN <<>>
    ELSE (IF Head(mask) THEN <<Head(rows)>> ELSE <<>>)
             \o SelectByMask(Tail(rows), Tail(mask))

\* Series.sum() of a boolean mask
MaskSum(mask) == Cardinality({i \in DOMAIN mask : mask[i]})

Negate(mask) == [i \in DOMAIN mask |-> ~mask[i]]

\* df.duplicated(subset, keep=False): every member of a group of two or more
DuplicatedKeepFalse(rows, subset) ==
    [i \in 1..Len(rows) |->
        \E j \in 1..Len(rows) :
            j # i /\ Project(rows[j], subset) = Project(rows[i], subset)]

\* Faulty variant of DuplicatedKeepFirst: a row counts as its own predecessor
DuplicatedUpToSelf(rows, subset) ==
    [i \in 1..Len(rows) |->
        \E j \in 1..i : Project(rows[j], subset) = Project(rows[i], subset)]

\* df.duplicated(subset, keep='first'): every member but the first of its group
DuplicatedKeepFirst(rows, subset) ==
    [i \in 1..Len(rows) |->
        \E j \in 1..(i - 1) : Project(rows[j], subset) = Project(rows[i], subset)]

\* Faulty variant of DropDuplicates: the last row of every group is kept
DropDuplicatesKeepLast(df, subset) ==
    Table(df.cols,
          SelectByMask(df.rows,
              [i \in 1..Len(df.rows) |->
                  ~\E j \in (i + 1)..Len(df.rows) :
                      Project(df.rows[j], subset) = Project(df.rows[i], subset)]))

\* df.drop_duplicates(subset): the first row of every group
DropDuplicates(df, subset) ==
    Table(df.cols, SelectByMask(df.rows, Negate(DuplicatedKeepFirst(df.rows, subset))))

\* The three duplicate statistics over the key columns subset
DuplicateStats(df, subset) ==
    LET duplicates_all == DuplicatedKeepFalse(df.rows, subset)
        duplicates_extra == DuplicatedKeepFirst(df.rows, subset)
        distinct_duplicate_rows ==
            DropDuplicates(Table(df.cols, SelectByMask(df.rows, duplicates_all)), subset)
    IN [unique_duplicate_rows |-> NRows(distinct_duplicate_rows),
        total_duplicates |-> MaskSum(duplicates_all),
        extra_duplicates |-> MaskSum(duplicates_extra)]

\* tuple(x) if isinstance(x, list) else x
ListToTuple(c) == IF c.k = "list" THEN TupleCell(c.s) ELSE c

\* Every column holding a list has its lists turned into tuples
ListColumnsToTuples(df) ==
    Table(df.cols,
          [i \in 1..Len(df.rows) |->
              [c \in ColSet(df) |->
                  IF \E j \in 1..Len(df.rows) : df.rows[j][c].k = "list"
                  THEN ListToTuple(df.rows[i][c])
                  ELSE df.rows[i][c]]])

\* remove_true_duplicates_from_df: the reduced table and its statistics
RemoveTrueDuplicatesFromDf(df) ==
    LET tupled == ListColumnsToTuples(df)
        stats == DuplicateStats(tupled, ColSet(tupled))
    IN [df |-> IF stats.total_duplicates > 0
               THEN DropDuplicates(tupled, ColSet(tupled))
               ELSE tupled,
        summary |-> ("Aggregate_output" :> stats)]

-----------------------------------------------------------------------------
(* Record Linker: merge_linked_dataframes *)

\* df[col] = df[col].astype(str).str.strip().str.upper()
NormalizeColumn(df, col) ==
    Table(df.cols,
          [i \in 1..Len(df.rows) |->
              [df.rows[i] EXCEPT ![col] = NormalizeCell(df.rows[i][col])]])

\* The positions of the rows of right whose key equals key, ascending
MatchingRows(right, on, key) ==
    SelectSeq([j \in 1..Len(right.rows) |-> j], LAMBDA j : right.rows[j][on] = key)

\* Faulty variant of PdMergeLeft: a left row without a match is dropped
PdMergeInner(left, right, on) ==
    LET rcols == SelectSeq(right.cols, LAMBDA c : c # on)
        cols == left.cols \o rcols
    IN Table(cols,
             ConcatSeqs([i \in 1..Len(left.rows) |->
                 LET m == MatchingRows(right, on, left.rows[i][on])
                 IN [k \in 1..Len(m) |->
                        [n \in Range(cols) |->
                            IF n \in ColSet(left) THEN left.rows[i][n]
                            ELSE right.rows[m[k]][n]]]]))

\* pd.merge(left, right, on=on, how="left"): every left row, in order, once per
\* matching right row (in right order) or once with NaN in the right columns;
\* a non-key column name both tables have gets the suffix _x (left), _y (right)
PdMergeLeft(left, right, on) ==
    LET overlap == (ColSet(left) \cap ColSet(right)) \ {on}
        LName(c) == IF c \in overlap THEN c \o "_x" ELSE c
        RName(c) == IF c \in overlap THEN c \o "_y" ELSE c
        rcols == SelectSeq(right.cols, LAMBDA c : c # on)
        cols == [i \in 1..Len(left.cols) |-> LName(left.cols[i])]
                    \o [i \in 1..Len(rcols) |-> RName(rcols[i])]
        LeftPart(l) == [n \in {LName(c) : c \in ColSet(left)} |->
                           l[CHOOSE c \in ColSet(left) : LName(c) = n]]
        RightPart(r) == [n \in {RName(c) : c \in Range(rcols)} |->
                            r[CHOOSE c \in Range(rcols) : RName(c) = n]]
        RightNull == [n \in {RName(c) : c \in Range(rcols)} |-> NullCell]
    IN Table(cols,
             ConcatSeqs([i \in 1..Len(left.rows) |->
                 LET m == MatchingRows(right, on, left.rows[i][on])
                 IN IF m = <<>>
                    THEN <<LeftPart(left.rows[i]) @@ RightNull>>
                    ELSE [k \in 1..Len(m) |->
                             LeftPart(left.rows[i]) @@ RightPart(right.rows[m[k]])]]))

\* dataframes.get(key) is not None
Present(dfs, key) == key \in DOMAIN dfs

\* Faulty variant of MergeLinkedDataframes: the join runs without the presence test
MergeLinkedNoGuard(dfs) ==
    LET Get(key) == IF Present(dfs, key) THEN dfs[key]
                    ELSE Table(<<"APPLICATION_ID">>, <<>>)
        joined == PdMergeLeft(Get("PRJ"), Get("PRJABS"), "APPLICATION_ID")
    IN [linked |-> ("PRJ_PRJABS" :> joined),
        summary |-> ("PRJ_PRJABS" :>
            [merged |-> [rows |-> NRows(joined), cols |-> NCols(joined)]]),
        dataframes |-> dfs]

\* merge_linked_dataframes: the linked mapping, its summary, and the caller's
\* mapping, whose APPLICATION_ID columns the call normalizes in place.  A table
\* without the APPLICATION_ID column raises KeyError inside the try block.
MergeLinkedDataframes(dfs) ==
    IF ~(Present(dfs, "PRJ") /\ Present(dfs, "PRJABS"))
    THEN [linked |-> EmptyDict, summary |-> EmptyDict, dataframes |-> dfs]
    ELSE IF "APPLICATION_ID" \notin ColSet(dfs["PRJ"])
    THEN [linked |-> EmptyDict, summary |-> EmptyDict, dataframes |-> dfs]
    ELSE LET prj == NormalizeColumn(dfs["PRJ"], "APPLICATION_ID")
         IN IF "APPLICATION_ID" \notin ColSet(dfs["PRJABS"])
            THEN [linked |-> EmptyDict, summary |-> EmptyDict,
                  dataframes |-> [dfs EXCEPT !["PRJ"] = prj]]
            ELSE LET prjabs == NormalizeColumn(dfs["PRJABS"], "APPLICATION_ID")
                     joined == PdMergeLeft(prj, prjabs, "APPLICATION_ID")
                 IN [linked |-> ("PRJ_PRJABS" :> joined),
                     summary |-> ("PRJ_PRJABS" :>
                         [PRJ |-> [rows |-> NRows(prj), cols |-> NCols(prj)],
                          PRJABS |-> [rows |-> NRows(prjabs), cols |-> NCols(prjabs)],
                          merged |-> [rows |-> NRows(joined), cols |-> NCols(joined)],
                          changes |-> [rows_added |-> NRows(joined) - NRows(prj),
                                       cols_added |-> NCols(joined) - NCols(prj)]]),
                     dataframes |-> [dfs EXCEPT !["PRJ"] = prj, !["PRJABS"] = prjabs]]

-----------------------------------------------------------------------------
(* Outcome Aggregator: count_unique_pairs *)

\* The characters of the model in ascending code point order
CharOrder ==
    <<"\t", "\n", " ", "'", "(", ")", "-", "0", "1", "2", "3", "4", "5", "6", "7", "8", "9",
      "A", "B", "N", "X", "Y", "[", "]", "a", "b", "e", "f", "i", "n", "s", "t",
      "x", "y">>

CharRank(ch) == CHOOSE i \in DOMAIN CharOrder : CharOrder[i] = ch

\* s < t for two strings
RECURSIVE LexLess(_, _)
LexLess(s, t) ==
    IF t = <<>> THEN FALSE
    ELSE IF s = <<>> THEN TRUE
    ELSE IF Head(s) = Head(t) THEN LexLess(Tail(s), Tail(t))
    ELSE CharRank(Head(s)) < CharRank(Head(t))

\* The cells of a set in ascending order of their strings
RECURSIVE SortCells(_)
SortCells(S) ==
    IF S = {} THEN <<>>
    ELSE LET least == CHOOSE c \in S : \A d \in S \ {c} : LexLess(PyStr(c), PyStr(d))
         IN <<least>> \o SortCells(S \ {least})

\* The decimal digits of a natural number
RECURSIVE ToDigits(_)
ToDigits(n) == IF n < 10 THEN <<Digit(n)>> ELSE Append(ToDigits(n \div 10), Digit(n % 10))

CountCell(n) == IntCell(ToDigits(n))

\* Faulty variant of GroupBySize: one row per row of the table, not per key
GroupBySizePerRow(df, key, count_name) ==
    Table(<<key, count_name>>,
          [i \in 1..Len(df.rows) |-> (key :> df.rows[i][key]) @@ (count_name :> CountCell(1))])

\* df.groupby(key).size().reset_index(name=count_name): one row per non-null key,
\* keys ascending
GroupBySize(df, key, count_name) ==
    LET keys == SortCells({df.rows[i][key] : i \in 1..Len(df.rows)} \ {NullCell})
    IN Table(<<key, count_name>>,
             [g \in 1..Len(keys) |->
                 (key :> keys[g])
                 @@ (count_name :>
                        CountCell(Cardinality({i \in 1..Len(df.rows) :
                                                  df.rows[i][key] = keys[g]})))])

\* Faulty variant of CountUniquePairs: repeated pairs are counted each time
CountUniquePairsNoDedup(df, combo_cols, count_name) ==
    [count_df |-> GroupBySize(df, "PROJECT_NUMBER", count_name),
     summary |-> (count_name :> DuplicateStats(df, Range(combo_cols)))]

\* count_unique_pairs: the per-project count table and the dedup statistics; a
\* missing key column or an unhashable key (KeyError, TypeError) is caught
CountUniquePairs(df, combo_cols, count_name) ==
    IF \/ ~(Range(combo_cols) \cup {"PROJECT_NUMBER"} \subseteq ColSet(df))
       \/ \E i \in 1..Len(df.rows) : \E c \in Range(combo_cols) : df.rows[i][c].k = "list"
    THEN [count_df |-> Table(<<"PROJECT_NUMBER", count_name>>, <<>>),
          summary |-> EmptyDict]
    ELSE [count_df |-> GroupBySize(DropDuplicates(df, Range(combo_cols)),
                                   "PROJECT_NUMBER", count_name),
          summary |-> (count_name :> DuplicateStats(df, Range(combo_cols)))]

-----------------------------------------------------------------------------
(* Outcome Aggregator: aggregate_project_outputs *)

\* normalize_columns: every listed column the table has is normalized, in place
RECURSIVE NormalizeColumns(_, _)
NormalizeColumns(df, cols) ==
    IF cols = <<>> THEN df
    ELSE NormalizeColumns(
             IF Head(cols) \in ColSet(df) THEN NormalizeColumn(df, Head(cols)) ELSE df,
             Tail(cols))

\* Faulty variant of FillNaZero: a missing count stays NaN
KeepNaN(c) == c

\* Series.fillna(0).astype(int) on one cell of a count column
FillNaZero(c) == IF c = NullCell THEN CountCell(0) ELSE c

\* aggregate_df[count_name] = aggregate_df[count_name].fillna(0).astype(int)
FillCountColumn(df, count_name) ==
    Table(df.cols,
          [i \in 1..Len(df.rows) |->
              [df.rows[i] EXCEPT ![count_name] = FillNaZero(df.rows[i][count_name])]])

\* One outcome block of aggregate_project_outputs, on the running aggregate
\* table agg and the caller's mapping dfs: the category's columns are normalized
\* in place, its pairs counted, and the counts left-merged onto agg.  bound says
\* whether the block assigned its summary variable.  A merge that raises (agg
\* has no PROJECT_NUMBER) is caught by the block; so is the KeyError of the fill
\* when the merge has suffixed an existing count column.
OutcomeBlock(agg, dfs, category, normalize, combo_cols, count_name) ==
    IF category \notin DOMAIN dfs
    THEN [agg |-> agg, dfs |-> dfs, bound |-> FALSE, summary |-> EmptyDict]
    ELSE LET normalized == NormalizeColumns(dfs[category], normalize)
             counted == CountUniquePairs(normalized, combo_cols, count_name)
             merged == PdMergeLeft(agg, counted.count_df, "PROJECT_NUMBER")
         IN [agg |-> IF "PROJECT_NUMBER" \notin ColSet(agg) THEN agg
                     ELSE IF count_name \notin ColSet(merged) THEN merged
                     ELSE FillCountColumn(merged, count_name),
             dfs |-> [dfs EXCEPT ![category] = normalized],
             bound |-> TRUE,
             summary |-> counted.summary]

\* The publication block, on the renamed copy of PRJ_PRJABS
PublicationBlock(linked_merged, dfs) ==
    OutcomeBlock(RenameColumns(linked_merged["PRJ_PRJABS"],
                               ("PROJECT_NUMBER_x" :> "PROJECT_NUMBER")),
                 dfs, "PUBLINK",
                 <<"PMID", "PROJECT_NUMBER">>,
                 <<"PROJECT_NUMBER", "PMID">>, "publication count")

\* The patent block, on what the publication block left
PatentBlock(pub) ==
    OutcomeBlock(pub.agg, pub.dfs, "Patents",
                 <<"PROJECT_NUMBER", "PATENT_ID">>,
                 <<"PROJECT_NUMBER", "PATENT_ID">>, "patent count")

\* The clinical study block, on what the patent block left
StudyBlock(pat) ==
    OutcomeBlock(pat.agg, pat.dfs, "ClinicalStudies",
                 <<"PROJECT_NUMBER", "ClinicalTrials.gov ID">>,
                 <<"PROJECT_NUMBER", "ClinicalTrials.gov ID">>,
                 "clinical study count")

\* The end of aggregate_project_outputs: the three summaries are merged, which
\* raises UnboundLocalError when a block was skipped and never assigned its
\* summary variable.
AggregateReturn(pub, pat, std) ==
    IF pub.bound /\ pat.bound /\ std.bound
    THEN [raised |-> "None", df |-> std.agg,
          summary |-> std.summary @@ pat.summary @@ pub.summary,
          dataframes |-> std.dfs]
    ELSE [raised |-> "UnboundLocalError", df |-> Table(<<>>, <<>>),
          summary |-> EmptyDict, dataframes |-> std.dfs]

\* aggregate_project_outputs: the exception leaving the call ("None" if it
\* returns), the aggregate table, the summary, and the caller's mapping.
\* linked_merged["PRJ_PRJABS"] raises KeyError when the key is absent.  The
\* three blocks run one after the other, each on the result of the one before.
AggregateProjectOutputs(linked_merged, dfs) ==
    IF "PRJ_PRJABS" \notin DOMAIN linked_merged
    THEN [raised |-> "KeyError", df |-> Table(<<>>, <<>>), summary |-> EmptyDict,
          dataframes |-> dfs]
    ELSE CHOOSE result \in
             UNION { UNION { { AggregateReturn(pub, pat, std) :
                                   std \in {StudyBlock(pat)} } :
                             pat \in {PatentBlock(pub)} } :
                     pub \in {PublicationBlock(linked_merged, dfs)} } : TRUE

-----------------------------------------------------------------------------
(* The per-file cleaning of scripts/preprocessing.py *)

\* drop_specified_columns, in place
DropSpecifiedColumns(cfg, dfmap) ==
    LET columns_to_drop == ConfigGet(cfg, "drop_col_header_map", EmptyDict)
    IN [i \in 1..Len(dfmap) |->
           IF dfmap[i].folder \in DOMAIN columns_to_drop
           THEN [dfmap[i] EXCEPT !.files =
                    [k \in 1..Len(dfmap[i].files) |->
                        [dfmap[i].files[k] EXCEPT !.df =
                            DropColumns(dfmap[i].files[k].df,
                                        Range(columns_to_drop[dfmap[i].folder]))]]]
           ELSE dfmap[i]]

\* rename_dataframe_columns, in place
RenameDataframeColumns(cfg, dfmap) ==
    LET rename_mapping == ConfigGet(cfg, "rename_columns_map", EmptyDict)
    IN [i \in 1..Len(dfmap) |->
           [dfmap[i] EXCEPT !.files =
               [k \in 1..Len(dfmap[i].files) |->
                   [dfmap[i].files[k] EXCEPT !.df =
                       RenameColumns(dfmap[i].files[k].df, rename_mapping)]]]]

\* remove_true_duplicates: lists to tuples in every column, then every row that
\* duplicated(keep=False) marks is filtered out
RemoveTrueDuplicates(df) ==
    LET df_processed ==
            Table(df.cols,
                  [i \in 1..Len(df.rows) |->
                      [c \in ColSet(df) |-> ListToTuple(df.rows[i][c])]])
        duplicates == DuplicatedKeepFalse(df_processed.rows, ColSet(df_processed))
    IN [df |-> IF MaskSum(duplicates) > 0
               THEN Table(df_processed.cols,
                          SelectByMask(df_processed.rows, Negate(duplicates)))
               ELSE df_processed,
        num_duplicates |-> MaskSum(duplicates)]

\* clean_dataframes: drop, rename, then the duplicate pass over every file
\* (validate_csv_headers only logs)
CleanedDataframes(cfg, dfmap) ==
    LET prepared == RenameDataframeColumns(cfg, DropSpecifiedColumns(cfg, dfmap))
    IN [i \in 1..Len(prepared) |->
           [prepared[i] EXCEPT !.files =
               [k \in 1..Len(prepared[i].files) |->
                   [prepared[i].files[k] EXCEPT !.df =
                       RemoveTrueDuplicates(prepared[i].files[k].df).df]]]]

-----------------------------------------------------------------------------
(* Bounds of the append inputs *)

\* The most files loaded, over all folders
MaxFiles == 2

\* The most rows of one loaded file
MaxFileRows == 2

-----------------------------------------------------------------------------
(* Schema Reconciler: append_dataframes_by_folder *)

\* The column names of the model in ascending (code point) order
AlphabeticalOrder ==
    <<"A", "ABSTRACT_TEXT", "APPLICATION_ID", "B", "C", "ClinicalTrials.gov ID", "D",
      "PATENT_ID", "PMID", "PROJECT_NUMBER", "PROJECT_TITLE",
      "clinical study count", "patent count", "publication count">>

\* sorted(S) for a set of column names
Sorted(S) == SelectSeq(AlphabeticalOrder, LAMBDA c : c \in S)

InitializeFolderSummary(folder, num_files) ==
    [folder |-> folder,
     num_files |-> num_files,
     unexpected_columns |-> <<>>,
     new_columns_added |-> 0,
     skipped |-> FALSE,
     total_rows |-> 0,
     total_columns |-> 0,
     error |-> "None"]

\* set.intersection(*(set(df.columns) for df in dfs)), of at least one table
CommonColumns(dfs) ==
    {c \in ColSet(dfs[1]) : \A i \in DOMAIN dfs : c \in ColSet(dfs[i])}

AllColumns(dfs) == UNION {ColSet(dfs[i]) : i \in DOMAIN dfs}

\* Faulty variant of AppendOneFolder: a mismatching folder is appended anyway
AppendOneFolderNoSkip(entry, force_append) ==
    LET dfs == [i \in 1..Len(entry.files) |-> entry.files[i].df]
        summary == InitializeFolderSummary(entry.folder, Len(dfs))
    IN IF Len(dfs) = 0
       THEN [appended |-> FALSE, df |-> Table(<<>>, <<>>),
             summary |-> [summary EXCEPT !.error = "TypeError"]]
       ELSE LET unexpected == Sorted(AllColumns(dfs) \ CommonColumns(dfs))
                appended_df == PdConcat(dfs)
            IN [appended |-> TRUE, df |-> appended_df,
                summary |-> [summary EXCEPT !.unexpected_columns = unexpected,
                                            !.total_rows = NRows(appended_df),
                                            !.total_columns = NCols(appended_df)]
                            @@ ("unexpected_columns_added" :> Len(unexpected))]

\* One iteration of the loop over the folders: whether the folder was appended,
\* the appended table and the folder's summary
AppendOneFolder(entry, force_append) ==
    LET dfs == [i \in 1..Len(entry.files) |-> entry.files[i].df]
        summary == InitializeFolderSummary(entry.folder, Len(dfs))
    IN IF Len(dfs) = 0
       THEN \* set.intersection() of no sets raises TypeError, caught per folder
            [appended |-> FALSE, df |-> Table(<<>>, <<>>),
             summary |-> [summary EXCEPT !.error = "TypeError"]]
       ELSE LET unexpected == Sorted(AllColumns(dfs) \ CommonColumns(dfs))
                checked == [summary EXCEPT !.unexpected_columns = unexpected]
                           @@ ("unexpected_columns_added" :> Len(unexpected))
            IN IF unexpected # <<>> /\ ~force_append
               THEN [appended |-> FALSE, df |-> Table(<<>>, <<>>),
                     summary |-> [checked EXCEPT !.skipped = TRUE]]
               ELSE LET appended_df == PdConcat(dfs)
                    IN [appended |-> TRUE, df |-> appended_df,
                        summary |-> [checked EXCEPT !.total_rows = NRows(appended_df),
                                                    !.total_columns = NCols(appended_df)]]

\* The entry of a folder in the ordered folder -> files mapping
FolderEntry(dfmap, folder) ==
    dfmap[CHOOSE i \in DOMAIN dfmap : dfmap[i].folder = folder]

FolderNames(dfmap) == {dfmap[i].folder : i \in DOMAIN dfmap}

AppendedDict(cfg, dfmap) ==
    LET force == ConfigGet(cfg, "force_append", FALSE)
        done == {f \in FolderNames(dfmap) :
                    AppendOneFolder(FolderEntry(dfmap, f), force).appended}
    IN [f \in done |-> AppendOneFolder(FolderEntry(dfmap, f), force).df]

\* Faulty variant of AppendedSummary: the first failure ends the loop, the folders
\* after it get no entry
AppendedSummaryUntilFailure(cfg, dfmap) ==
    LET force == ConfigGet(cfg, "force_append", FALSE)
        Failed(i) == AppendOneFolder(dfmap[i], force).summary.error # "None"
        reached == {i \in DOMAIN dfmap : \A j \in 1..(i - 1) : ~Failed(j)}
    IN [f \in {dfmap[i].folder : i \in reached} |->
           AppendOneFolder(FolderEntry(dfmap, f), force).summary]

AppendedSummary(cfg, dfmap) ==
    LET force == ConfigGet(cfg, "force_append", FALSE)
    IN [f \in FolderNames(dfmap) |-> AppendOneFolder(FolderEntry(dfmap, f), force).summary]

-----------------------------------------------------------------------------
(* The inputs of the append: two folders sharing at most MaxFiles files *)

ColumnLayouts == {<<"A", "B", "C">>, <<"A", "B", "D">>, <<"A", "B">>, <<"B", "A">>}

\* File number k: nrows rows under the columns cols, each cell naming its file,
\* column and row
FileTable(k, cols, nrows) ==
    Table(cols,
          [j \in 1..nrows |-> [c \in Range(cols) |-> StrCell(<<Digit(k), c, Digit(j)>>)]])

FileEntry(k, shape) ==
    [name |-> <<"f", Digit(k)>>, df |-> FileTable(k, shape[1], shape[2])]

\* The first split files under PRJ, the others under PRJABS
BuildFolders(shapes, split) ==
    <<[folder |-> "PRJ",
       files |-> [k \in 1..split |-> FileEntry(k, shapes[k])]],
      [folder |-> "PRJABS",
       files |-> [k \in 1..(Len(shapes) - split) |->
                     FileEntry(split + k, shapes[split + k])]]>>

AppendInputs ==
    {BuildFolders(shapes, split) :
        <<shapes, split>> \in
            {ss \in SeqsUpTo(ColumnLayouts \X (0..MaxFileRows), MaxFiles) \X (0..MaxFiles) :
                ss[2] <= Len(ss[1])}}

AppendConfigs ==
    {EmptyDict} \cup {("force_append" :> b) : b \in BOOLEAN}

NoTable == Table(<<>>, <<>>)

\* The keyword enrichment has not been called
EnrichmentIdle ==
    /\ enrich_df = NoTable
    /\ chunks = <<>>
    /\ running = {}
    /\ futures = EmptyDict
    /\ completed = <<>>
    /\ enrich_result = EmptyDict

\* The training filter has not been called
FinalizeIdle ==
    /\ keywords_df = EmptyDict
    /\ cutoff_value = <<>>
    /\ filter_result = EmptyDict

\* The keyword variant generator has not been called
KeywordsIdle ==
    /\ keyword = <<>>
    /\ variants = {}

\* The preprocess stage has not been called
PreprocessIdle ==
    /\ load_summary = EmptyDict
    /\ rename_dict = <<>>
    /\ rename_summary = EmptyDict
    /\ metadata_raw = EmptyDict
    /\ preprocess_summary = EmptyDict

\* The caller passes a logger
LoggerSupplied ==
    /\ logger = TRUE

\* No pipeline run is under way
PipelineIdle ==
    /\ categories = EmptyDict
    /\ pickles = {}
    /\ has_linked = FALSE
    /\ passes = <<>>

\* No keyword list is being built
KeywordSetIdle ==
    /\ keywords = <<>>
    /\ remove_stopwords = FALSE
    /\ enriched = <<>>

\* load_csv_files has not been called
LoaderIdle ==
    /\ disk = <<>>
    /\ folder_at = 0
    /\ read_running = {}
    /\ read_futures = EmptyDict
    /\ read_order = <<>>
    /\ yielded = 0
    /\ load_result = <<>>

InitAppend ==
    /\ pc = "start"
    /\ config \in AppendConfigs
    /\ dataframes \in AppendInputs
    /\ appended_dict = EmptyDict
    /\ summary_dict = EmptyDict
    /\ linked_dict = EmptyDict
    /\ linked_summary_dict = EmptyDict
    /\ aggregate_df = NoTable
    /\ aggregate_summary = EmptyDict
    /\ dedupe_df = NoTable
    /\ dedupe_summary = EmptyDict
    /\ count_df = NoTable
    /\ dedup_summary = EmptyDict
    /\ raised = "None"
    /\ appended_in = EmptyDict
    /\ EnrichmentIdle
    /\ FinalizeIdle
    /\ KeywordsIdle
    /\ PreprocessIdle
    /\ LoggerSupplied
    /\ PipelineIdle
    /\ KeywordSetIdle
    /\ LoaderIdle

AppendDataframesByFolder ==
    /\ pc = "start"
    /\ pc' = "appended"
    /\ appended_dict' = AppendedDict(config, dataframes)
    /\ summary_dict' = AppendedSummary(config, dataframes)
    /\ UNCHANGED <<config, dataframes, linked_dict, linked_summary_dict, aggregate_df,
                   aggregate_summary, dedupe_df, dedupe_summary, count_df,
                   dedup_summary, raised, appended_in>>
    /\ UNCHANGED loaderVars
    /\ UNCHANGED keywordSetVars
    /\ UNCHANGED pipelineVars
    /\ UNCHANGED loggerVars
    /\ UNCHANGED preprocessVars
    /\ UNCHANGED keywordVars
    /\ UNCHANGED finalizeVars
    /\ UNCHANGED enrichVars

NextAppend == AppendDataframesByFolder

SpecAppend == InitAppend /\ [][NextAppend]_vars

-----------------------------------------------------------------------------
(* Claims about the append *)

ForceAppend == ConfigGet(config, "force_append", FALSE)

\* All tables of a folder entry have the same set of column names
SameColumnSet(entry) ==
    \A i, j \in DOMAIN entry.files : ColSet(entry.files[i].df) = ColSet(entry.files[j].df)

UnionOfColumns(entry) == UNION {ColSet(entry.files[i].df) : i \in DOMAIN entry.files}

IntersectionOfColumns(entry) ==
    {c \in UnionOfColumns(entry) : \A i \in DOMAIN entry.files : c \in ColSet(entry.files[i].df)}

\* The rows of the files before file k
RowsBefore(entry, k) == SumSeq([i \in 1..(k - 1) |-> NRows(entry.files[i].df)])

TotalInputRows(entry) == RowsBefore(entry, Len(entry.files) + 1)

Rank(c) == CHOOSE i \in DOMAIN AlphabeticalOrder : AlphabeticalOrder[i] = c

StrictlyAscending(cols) ==
    \A i, j \in DOMAIN cols : i < j => Rank(cols[i]) < Rank(cols[j])

\* C1: a category is appended exactly when it holds a table and its tables share
\* one column set or force_append is set; the appended table then has the sum of
\* the input row counts as its row count and the size of the union of the column
\* names as its column count, holds the input rows in file order with null in
\* every column the source table lacked, and the summary's total_rows and
\* total_columns are these two numbers.
C1_AppendRowsAndColumns ==
    pc = "appended" =>
        \A e \in Range(dataframes) :
            /\ e.folder \in DOMAIN appended_dict
                   <=> (Len(e.files) > 0 /\ (SameColumnSet(e) \/ ForceAppend))
            /\ e.folder \in DOMAIN appended_dict =>
                   LET out == appended_dict[e.folder]
                       sum == summary_dict[e.folder]
                   IN /\ NRows(out) = TotalInputRows(e)
                      /\ ColSet(out) = UnionOfColumns(e)
                      /\ NCols(out) = Cardinality(UnionOfColumns(e))
                      /\ \A k \in DOMAIN e.files :
                             \A j \in 1..NRows(e.files[k].df) :
                                 LET src == e.files[k].df.rows[j]
                                     row == out.rows[RowsBefore(e, k) + j]
                                 IN \A c \in UnionOfColumns(e) :
                                        row[c] = IF c \in DOMAIN src THEN src[c] ELSE NullCell
                      /\ sum.total_rows = TotalInputRows(e)
                      /\ sum.total_columns = Cardinality(UnionOfColumns(e))
                      /\ sum.skipped = FALSE
                      /\ sum.error = "None"

\* A forced append of two tables with different columns, with rows, was made
C1_Witness ==
    /\ pc = "appended"
    /\ ForceAppend
    /\ \E e \in Range(dataframes) :
           /\ Len(e.files) = 2
           /\ ~SameColumnSet(e)
           /\ NRows(e.files[1].df) = 2
           /\ NRows(e.files[2].df) = 1
           /\ e.folder \in DOMAIN appended_dict
           /\ NRows(appended_dict[e.folder]) = 3
           /\ NCols(appended_dict[e.folder]) = 4
           /\ \E c \in ColSet(appended_dict[e.folder]) :
                  appended_dict[e.folder].rows[3][c] = NullCell

\* C2: a category whose tables do not all have the same column set is, when
\* force_append is false, absent from the appended mapping; its summary has
\* skipped = TRUE and unexpected_columns is the ascending list of the columns in
\* the union but not in the intersection; for {A,B,C} and {A,B,D} it is <<C, D>>.
C2_SkipOnMismatch ==
    pc = "appended" =>
        \A e \in Range(dataframes) :
            (Len(e.files) > 0 /\ ~SameColumnSet(e) /\ ~ForceAppend) =>
                LET sum == summary_dict[e.folder]
                IN /\ e.folder \notin DOMAIN appended_dict
                   /\ sum.skipped = TRUE
                   /\ Range(sum.unexpected_columns)
                          = UnionOfColumns(e) \ IntersectionOfColumns(e)
                   /\ StrictlyAscending(sum.unexpected_columns)
                   /\ sum.total_rows = 0
                   /\ ({ColSet(e.files[i].df) : i \in DOMAIN e.files}
                           = {{"A", "B", "C"}, {"A", "B", "D"}}
                       => sum.unexpected_columns = <<"C", "D">>)

\* The scenario of the claim: {A,B,C} and {A,B,D} in one category, not forced
C2_Witness ==
    /\ pc = "appended"
    /\ ~ForceAppend
    /\ \E e \in Range(dataframes) :
           /\ Len(e.files) = 2
           /\ ColSet(e.files[1].df) = {"A", "B", "C"}
           /\ ColSet(e.files[2].df) = {"A", "B", "D"}
           /\ e.folder \notin DOMAIN appended_dict
           /\ summary_dict[e.folder].skipped
           /\ summary_dict[e.folder].unexpected_columns = <<"C", "D">>

\* The folders whose processing raised
FailedFolders == {f \in DOMAIN summary_dict : summary_dict[f].error # "None"}

\* The input mapping without the entries of the given folders
WithoutFolders(dfmap, folders) == SelectSeq(dfmap, LAMBDA e : e.folder \notin folders)

\* C21: a category whose processing fails (one that holds no table) is absent
\* from the appended mapping and its summary entry carries the error; the other
\* categories have the appended table and the summary entry they have when the
\* call is made without the failing categories; and the summary has an entry
\* for every input category.
C21_FailureConfined ==
    pc = "appended" =>
        /\ DOMAIN summary_dict = FolderNames(dataframes)
        /\ \A e \in Range(dataframes) :
               Len(e.files) = 0 =>
                   /\ e.folder \notin DOMAIN appended_dict
                   /\ e.folder \in FailedFolders
                   /\ summary_dict[e.folder].skipped = FALSE
        /\ appended_dict = AppendedDict(config, WithoutFolders(dataframes, FailedFolders))
        /\ \A f \in FolderNames(dataframes) \ FailedFolders :
               summary_dict[f]
                   = AppendedSummary(config, WithoutFolders(dataframes, FailedFolders))[f]

\* The first category failed for want of a table and the second was appended
C21_Witness ==
    /\ pc = "appended"
    /\ Len(dataframes[1].files) = 0
    /\ dataframes[1].folder \in FailedFolders
    /\ Len(dataframes[2].files) = 2
    /\ dataframes[2].folder \in DOMAIN appended_dict
    /\ NRows(appended_dict[dataframes[2].folder]) = 3
    /\ summary_dict[dataframes[2].folder].total_rows = 3

-----------------------------------------------------------------------------
(* The duplicate eliminators on one drawn table *)

\* The most rows of the table handed to a duplicate eliminator
MaxDedupeRows == 3

DedupeColumns == <<"PROJECT_NUMBER", "PMID", "A">>

DedupeRows ==
    [PROJECT_NUMBER : {StrCell(<<"X", "1">>), StrCell(<<"X", "2">>)},
     PMID : {IntCell(<<"1">>), NullCell},
     A : {ListCell(<<"1">>), TupleCell(<<"1">>), TupleCell(<<"2">>)}]

DedupeTables == {Table(DedupeColumns, rows) : rows \in SeqsUpTo(DedupeRows, MaxDedupeRows)}

CleanConfigs ==
    {EmptyDict,
     ("drop_col_header_map" :> ("PUBLINK" :> <<"A">>)),
     ("rename_columns_map" :> ("PMID" :> "B"))}

Reverse(s) == [i \in 1..Len(s) |-> s[Len(s) + 1 - i]]

\* One folder of two files: the drawn table, and its rows in reverse order
CleanInput(df) ==
    <<[folder |-> "PUBLINK",
       files |-> <<[name |-> <<"f", "1">>, df |-> df],
                   [name |-> <<"f", "2">>, df |-> Table(df.cols, Reverse(df.rows))]>>]>>

InitDedupe ==
    /\ pc = "start"
    /\ config \in CleanConfigs
    /\ aggregate_df \in DedupeTables
    /\ dataframes = CleanInput(aggregate_df)
    /\ appended_dict = ("PUBLINK" :> aggregate_df)
    /\ summary_dict = EmptyDict
    /\ linked_dict = EmptyDict
    /\ linked_summary_dict = EmptyDict
    /\ aggregate_summary = EmptyDict
    /\ dedupe_df = NoTable
    /\ dedupe_summary = EmptyDict
    /\ count_df = NoTable
    /\ dedup_summary = EmptyDict
    /\ raised = "None"
    /\ appended_in = appended_dict
    /\ EnrichmentIdle
    /\ FinalizeIdle
    /\ KeywordsIdle
    /\ PreprocessIdle
    /\ LoggerSupplied
    /\ PipelineIdle
    /\ KeywordSetIdle
    /\ LoaderIdle

\* metrics_df, dedupe_summary = remove_true_duplicates_from_df(aggregate_df)
CallRemoveTrueDuplicatesFromDf ==
    /\ pc = "start"
    /\ pc' = "deduped"
    /\ dedupe_df' = RemoveTrueDuplicatesFromDf(aggregate_df).df
    /\ dedupe_summary' = RemoveTrueDuplicatesFromDf(aggregate_df).summary
    /\ UNCHANGED <<config, dataframes, appended_dict, summary_dict, linked_dict,
                   linked_summary_dict, aggregate_df, aggregate_summary, count_df,
                   dedup_summary, raised, appended_in>>
    /\ UNCHANGED loaderVars
    /\ UNCHANGED keywordSetVars
    /\ UNCHANGED pipelineVars
    /\ UNCHANGED loggerVars
    /\ UNCHANGED preprocessVars
    /\ UNCHANGED keywordVars
    /\ UNCHANGED finalizeVars
    /\ UNCHANGED enrichVars

\* count_unique_pairs(publications, ["PROJECT_NUMBER", "PMID"], "publication count")
CallCountUniquePairs ==
    /\ pc = "start"
    /\ pc' = "counted"
    /\ LET r == CountUniquePairs(appended_dict["PUBLINK"], <<"PROJECT_NUMBER", "PMID">>,
                                 "publication count")
       IN /\ count_df' = r.count_df
          /\ dedup_summary' = r.summary
    /\ UNCHANGED <<config, dataframes, appended_dict, summary_dict, linked_dict,
                   linked_summary_dict, aggregate_df, aggregate_summary, dedupe_df,
                   dedupe_summary, raised, appended_in>>
    /\ UNCHANGED loaderVars
    /\ UNCHANGED keywordSetVars
    /\ UNCHANGED pipelineVars
    /\ UNCHANGED loggerVars
    /\ UNCHANGED preprocessVars
    /\ UNCHANGED keywordVars
    /\ UNCHANGED finalizeVars
    /\ UNCHANGED enrichVars

\* clean_dataframes(config, dataframes, logger)
CleanDataframes ==
    /\ pc = "start"
    /\ pc' = "cleaned"
    /\ dataframes' = CleanedDataframes(config, dataframes)
    /\ UNCHANGED <<config, appended_dict, summary_dict, linked_dict, linked_summary_dict,
                   aggregate_df, aggregate_summary, dedupe_df, dedupe_summary, count_df,
                   dedup_summary, raised, appended_in>>
    /\ UNCHANGED loaderVars
    /\ UNCHANGED keywordSetVars
    /\ UNCHANGED pipelineVars
    /\ UNCHANGED loggerVars
    /\ UNCHANGED preprocessVars
    /\ UNCHANGED keywordVars
    /\ UNCHANGED finalizeVars
    /\ UNCHANGED enrichVars

NextDedupe ==
    \/ CallRemoveTrueDuplicatesFromDf
    \/ CallCountUniquePairs
    \/ CleanDataframes

SpecDedupe == InitDedupe /\ [][NextDedupe]_vars

-----------------------------------------------------------------------------
(* Claims about the duplicate eliminators *)

\* A row with its list cells read as tuples
Pattern(row) ==
    [c \in DOMAIN row |-> IF row[c].k = "list" THEN [k |-> "tuple", s |-> row[c].s] ELSE row[c]]

\* The number of values occurring at least twice in a sequence of keys
DuplicateGroups(keys) ==
    Cardinality({keys[i] : i \in {i \in DOMAIN keys : \E j \in DOMAIN keys : j # i /\ keys[j] = keys[i]}})

\* The number of positions whose key occurs at least twice
GroupMembers(keys) ==
    Cardinality({i \in DOMAIN keys : \E j \in DOMAIN keys : j # i /\ keys[j] = keys[i]})

\* The position of the first occurrence of key in keys
FirstIndex(keys, key) ==
    CHOOSE i \in DOMAIN keys : keys[i] = key /\ \A j \in 1..(i - 1) : keys[j] # key

FullRowKeys(df) == [i \in 1..Len(df.rows) |-> Pattern(df.rows[i])]

CompositeKeys(df) ==
    [i \in 1..Len(df.rows) |->
        <<df.rows[i]["PROJECT_NUMBER"], df.rows[i]["PMID"]>>]

StatsAgree(stats, keys) ==
    /\ stats.total_duplicates = stats.extra_duplicates + DuplicateGroups(keys)
    /\ stats.unique_duplicate_rows = DuplicateGroups(keys)
    /\ stats.total_duplicates = GroupMembers(keys)

\* C3: the statistics of remove_true_duplicates_from_df (full-row equality) and
\* of count_unique_pairs (composite-key equality) satisfy total_duplicates =
\* extra_duplicates + number of duplicate groups and unique_duplicate_rows =
\* number of duplicate groups, a group being a row pattern (a composite key)
\* that occurs at least twice.
C3_DuplicateAccounting ==
    /\ pc = "deduped" =>
           /\ DOMAIN dedupe_summary = {"Aggregate_output"}
           /\ StatsAgree(dedupe_summary["Aggregate_output"], FullRowKeys(aggregate_df))
    /\ pc = "counted" =>
           /\ DOMAIN dedup_summary = {"publication count"}
           /\ StatsAgree(dedup_summary["publication count"],
                         CompositeKeys(appended_dict["PUBLINK"]))

\* Three rows with one composite key, only two of them equal rows, were counted
C3_Witness ==
    /\ pc = "counted"
    /\ dedup_summary["publication count"].total_duplicates = 3
    /\ dedup_summary["publication count"].extra_duplicates = 2
    /\ dedup_summary["publication count"].unique_duplicate_rows = 1
    /\ GroupMembers(FullRowKeys(appended_dict["PUBLINK"])) = 2

\* C4: remove_true_duplicates_from_df returns the first occurrence of each
\* distinct row pattern of its input, in input order: no two output rows are
\* equal, the output rows are the input's row patterns, the output row count is
\* the input row count minus extra_duplicates, lists compared as tuples.
C4_FirstOccurrencesKept ==
    pc = "deduped" =>
        LET keys == FullRowKeys(aggregate_df)
            out == dedupe_df.rows
        IN /\ dedupe_df.cols = aggregate_df.cols
           /\ \A i, j \in DOMAIN out : i # j => out[i] # out[j]
           /\ Range(out) = Range(keys)
           /\ \A i, j \in DOMAIN out :
                  i < j => FirstIndex(keys, out[i]) < FirstIndex(keys, out[j])
           /\ Len(out) = Len(keys) - dedupe_summary["Aggregate_output"].extra_duplicates

\* A list row and a tuple row of the same content were merged into one, ahead
\* of a row that occurs once
C4_Witness ==
    /\ pc = "deduped"
    /\ NRows(aggregate_df) = 3
    /\ aggregate_df.rows[1]["A"].k = "list"
    /\ aggregate_df.rows[2]["A"].k = "tuple"
    /\ Pattern(aggregate_df.rows[1]) = Pattern(aggregate_df.rows[2])
    /\ Pattern(aggregate_df.rows[3]) # Pattern(aggregate_df.rows[1])
    /\ NRows(dedupe_df) = 2
    /\ dedupe_summary["Aggregate_output"].extra_duplicates = 1

\* The files as the duplicate pass of clean_dataframes receives them
FilesBeforeDedupe ==
    RenameDataframeColumns(config, DropSpecifiedColumns(config, CleanInput(aggregate_df)))

\* C5: the per-file duplicate pass of clean_dataframes keeps, like the
\* aggregate-level pass, the first occurrence of every group of identical rows:
\* every distinct row pattern of a file is present exactly once in the cleaned
\* file.
C5_PerFilePassKeepsFirst ==
    pc = "cleaned" =>
        \A f \in DOMAIN dataframes :
            \A k \in DOMAIN dataframes[f].files :
                LET keys == FullRowKeys(FilesBeforeDedupe[f].files[k].df)
                    out == dataframes[f].files[k].df.rows
                IN /\ Range(out) = Range(keys)
                   /\ \A i, j \in DOMAIN out : i # j => out[i] # out[j]

-----------------------------------------------------------------------------
(* The linker on drawn PRJ and PRJABS tables *)

\* The most rows of a table handed to the linker
MaxLinkRows == 2

\* Raw APPLICATION_ID values: differing in case, in surrounding whitespace, in
\* type, and missing
RawIds ==
    {StrCell(<<"a">>), StrCell(<<" ", "A">>), StrCell(<<"b", " ">>),
     IntCell(<<"1">>), StrCell(<<"1">>), NullCell}

\* PRJ: row i carries PROJECT_NUMBER Xi
PrjTable(ids) ==
    Table(<<"APPLICATION_ID", "PROJECT_NUMBER">>,
          [i \in 1..Len(ids) |->
              [APPLICATION_ID |-> ids[i], PROJECT_NUMBER |-> StrCell(<<"X", Digit(i)>>)]])

\* PRJABS: row j carries ABSTRACT_TEXT tj
PrjabsTable(ids) ==
    Table(<<"APPLICATION_ID", "ABSTRACT_TEXT">>,
          [j \in 1..Len(ids) |->
              [APPLICATION_ID |-> ids[j], ABSTRACT_TEXT |-> StrCell(<<"t", Digit(j)>>)]])

\* A table that lacks the join column
KeylessTable == Table(<<"PROJECT_TITLE">>, <<[PROJECT_TITLE |-> StrCell(<<"t">>)]>>)

\* A category of the mapping: absent (<<>>) or present with its table (<<df>>)
PrjChoices ==
    {<<>>, <<KeylessTable>>} \cup {<<PrjTable(ids)>> : ids \in SeqsUpTo(RawIds, MaxLinkRows)}

PrjabsChoices ==
    {<<>>, <<KeylessTable>>} \cup {<<PrjabsTable(ids)>> : ids \in SeqsUpTo(RawIds, MaxLinkRows)}

\* The mapping holding the chosen categories
MappingOf(prj, prjabs) ==
    [f \in (IF prj = <<>> THEN {} ELSE {"PRJ"}) \cup (IF prjabs = <<>> THEN {} ELSE {"PRJABS"})
        |-> IF f = "PRJ" THEN prj[1] ELSE prjabs[1]]

InitLink ==
    /\ pc = "start"
    /\ config = EmptyDict
    /\ dataframes = <<>>
    /\ appended_dict \in {MappingOf(a, b) : <<a, b>> \in PrjChoices \X PrjabsChoices}
    /\ appended_in = appended_dict
    /\ summary_dict = EmptyDict
    /\ linked_dict = EmptyDict
    /\ linked_summary_dict = EmptyDict
    /\ aggregate_df = NoTable
    /\ aggregate_summary = EmptyDict
    /\ dedupe_df = NoTable
    /\ dedupe_summary = EmptyDict
    /\ count_df = NoTable
    /\ dedup_summary = EmptyDict
    /\ raised = "None"
    /\ EnrichmentIdle
    /\ FinalizeIdle
    /\ KeywordsIdle
    /\ PreprocessIdle
    /\ LoggerSupplied
    /\ PipelineIdle
    /\ KeywordSetIdle
    /\ LoaderIdle

\* linked_dict, linked_summary = merge_linked_dataframes(appended_dict, logger)
CallMergeLinkedDataframes ==
    /\ pc = "start"
    /\ pc' = "linked"
    /\ LET r == MergeLinkedDataframes(appended_dict)
       IN /\ linked_dict' = r.linked
          /\ linked_summary_dict' = r.summary
          /\ appended_dict' = r.dataframes
    /\ UNCHANGED <<config, dataframes, summary_dict, aggregate_df, aggregate_summary,
                   dedupe_df, dedupe_summary, count_df, dedup_summary, raised,
                   appended_in>>
    /\ UNCHANGED loaderVars
    /\ UNCHANGED keywordSetVars
    /\ UNCHANGED pipelineVars
    /\ UNCHANGED loggerVars
    /\ UNCHANGED preprocessVars
    /\ UNCHANGED keywordVars
    /\ UNCHANGED finalizeVars
    /\ UNCHANGED enrichVars

NextLink == CallMergeLinkedDataframes

SpecLink == InitLink /\ [][NextLink]_vars

-----------------------------------------------------------------------------
(* Claims about the linker *)

\* A raw identifier after string cast, whitespace trim and uppercasing
NormId(c) == Upper(Strip(PyStr(c)))

LinkProduced == pc = "linked" /\ "PRJ_PRJABS" \in DOMAIN linked_dict

\* The PRJABS rows (as the caller passed them) that PRJ row i matches
MatchesOf(i) ==
    {j \in 1..NRows(appended_in["PRJABS"]) :
        NormId(appended_in["PRJABS"].rows[j]["APPLICATION_ID"])
            = NormId(appended_in["PRJ"].rows[i]["APPLICATION_ID"])}

\* The rows of the joined table that stem from PRJ row i
JoinedRowsOf(i) ==
    {r \in 1..NRows(linked_dict["PRJ_PRJABS"]) :
        linked_dict["PRJ_PRJABS"].rows[r]["PROJECT_NUMBER"]
            = appended_in["PRJ"].rows[i]["PROJECT_NUMBER"]}

HasJoinColumn(df) == "APPLICATION_ID" \in ColSet(df)

\* C6: the joined table has at least as many rows as PRJ, and exactly as many
\* if and only if every normalized PRJ APPLICATION_ID matches at most one PRJABS
\* row; rows_added is merged rows minus PRJ rows and is never negative.
C6_JoinCardinality ==
    /\ (pc = "linked" /\ DOMAIN appended_in = {"PRJ", "PRJABS"}
            /\ HasJoinColumn(appended_in["PRJ"]) /\ HasJoinColumn(appended_in["PRJABS"]))
           => LinkProduced
    /\ LinkProduced =>
           LET prj == appended_in["PRJ"]
               joined == linked_dict["PRJ_PRJABS"]
               sum == linked_summary_dict["PRJ_PRJABS"]
           IN /\ NRows(joined) >= NRows(prj)
              /\ (NRows(joined) = NRows(prj))
                     <=> (\A i \in 1..NRows(prj) : Cardinality(MatchesOf(i)) <= 1)
              /\ sum.PRJ.rows = NRows(prj)
              /\ sum.merged.rows = NRows(joined)
              /\ sum.changes.rows_added = NRows(joined) - NRows(prj)
              /\ sum.changes.rows_added >= 0

\* A PRJ row matched two PRJABS rows and the join grew
C6_Witness ==
    /\ LinkProduced
    /\ NRows(appended_in["PRJ"]) = 2
    /\ NRows(linked_dict["PRJ_PRJABS"]) = 3
    /\ linked_summary_dict["PRJ_PRJABS"].changes.rows_added = 1
    /\ Cardinality(MatchesOf(1)) = 2

\* C7: a PRJ row and a PRJABS row are joined exactly when their APPLICATION_ID
\* values are equal after string cast, trim and uppercasing of both; a PRJ row
\* with no such match appears exactly once, its PRJ columns kept and every
\* PRJABS column null.
C7_NormalizedJoin ==
    LinkProduced =>
        LET prj == appended_in["PRJ"]
            prjabs == appended_in["PRJABS"]
            joined == linked_dict["PRJ_PRJABS"]
        IN /\ \A i \in 1..NRows(prj) :
                  /\ \A j \in 1..NRows(prjabs) :
                         (j \in MatchesOf(i))
                             <=> (Cardinality({r \in JoinedRowsOf(i) :
                                      joined.rows[r]["ABSTRACT_TEXT"]
                                          = prjabs.rows[j]["ABSTRACT_TEXT"]}) = 1)
                  /\ MatchesOf(i) = {} =>
                         /\ Cardinality(JoinedRowsOf(i)) = 1
                         /\ \A r \in JoinedRowsOf(i) :
                                joined.rows[r]["ABSTRACT_TEXT"] = NullCell
                  /\ \A r \in JoinedRowsOf(i) :
                         PyStr(joined.rows[r]["APPLICATION_ID"])
                             = NormId(prj.rows[i]["APPLICATION_ID"])
           /\ \A r \in 1..NRows(joined) : \E i \in 1..NRows(prj) : r \in JoinedRowsOf(i)

\* Identifiers that differ as written were joined, beside a PRJ row without match
C7_Witness ==
    /\ LinkProduced
    /\ \E i \in 1..NRows(appended_in["PRJ"]) :
           \E j \in MatchesOf(i) :
               /\ appended_in["PRJ"].rows[i]["APPLICATION_ID"]
                      # appended_in["PRJABS"].rows[j]["APPLICATION_ID"]
               /\ appended_in["PRJ"].rows[i]["APPLICATION_ID"].k = "str"
               /\ appended_in["PRJABS"].rows[j]["APPLICATION_ID"].k = "str"
    /\ \E i \in 1..NRows(appended_in["PRJ"]) :
           /\ MatchesOf(i) = {}
           /\ \E r \in JoinedRowsOf(i) :
                  linked_dict["PRJ_PRJABS"].rows[r]["ABSTRACT_TEXT"] = NullCell

\* C8: when PRJ or PRJABS is absent from the mapping, merge_linked_dataframes
\* raises nothing and returns an empty linked mapping and an empty summary.
C8_AbsentSourceSkipsJoin ==
    (pc = "linked" /\ ("PRJ" \notin DOMAIN appended_in \/ "PRJABS" \notin DOMAIN appended_in))
        => /\ raised = "None"
           /\ DOMAIN linked_dict = {}
           /\ DOMAIN linked_summary_dict = {}

\* The linker ran on a mapping holding a PRJ table with rows and no PRJABS
C8_Witness ==
    /\ pc = "linked"
    /\ DOMAIN appended_in = {"PRJ"}
    /\ HasJoinColumn(appended_in["PRJ"])
    /\ NRows(appended_in["PRJ"]) = 2
    /\ DOMAIN linked_dict = {}

-----------------------------------------------------------------------------
(* The aggregator on a drawn linked table and drawn outcome tables *)

\* The most rows of the linked PRJ_PRJABS table
MaxEntityRows == 2

\* The most outcome rows, over the three outcome categories
MaxOutcomeRows == 3

\* PROJECT_NUMBER values of the linked table: one as the outcome tables
\* normalize it, one in lower case
EntityNumbers == {StrCell(<<"X", "1">>), StrCell(<<"x", "2">>)}

\* The linked table: row i carries APPLICATION_ID i
LinkedTable(numbers) ==
    Table(<<"APPLICATION_ID", "PROJECT_NUMBER">>,
          [i \in 1..Len(numbers) |->
              [APPLICATION_ID |-> StrCell(<<Digit(i)>>), PROJECT_NUMBER |-> numbers[i]]])

LinkedChoices ==
    {EmptyDict}
        \cup {("PRJ_PRJABS" :> LinkedTable(numbers)) :
                 numbers \in SeqsUpTo(EntityNumbers, MaxEntityRows)}

OutcomeCategories == <<"PUBLINK", "Patents", "ClinicalStudies">>

OutcomeIdColumn == <<"PMID", "PATENT_ID", "ClinicalTrials.gov ID">>

\* Raw (PROJECT_NUMBER, outcome identifier) pairs: the second differs from the
\* first in case, whitespace and type only
OutcomePairs ==
    <<<<StrCell(<<"X", "1">>), StrCell(<<"1">>)>>,
      <<StrCell(<<" ", "x", "1">>), IntCell(<<"1">>)>>,
      <<StrCell(<<"X", "1">>), StrCell(<<"2">>)>>,
      <<StrCell(<<"X", "2">>), StrCell(<<"1">>)>>>>

\* The table of category number c holding the pairs that items gives it, in order
OutcomeTable(c, items) ==
    LET mine == SelectSeq(items, LAMBDA it : it[1] = c)
    IN Table(<<"PROJECT_NUMBER", OutcomeIdColumn[c]>>,
             [i \in 1..Len(mine) |->
                 ("PROJECT_NUMBER" :> OutcomePairs[mine[i][2]][1])
                 @@ (OutcomeIdColumn[c] :> OutcomePairs[mine[i][2]][2])])

\* Outcome rows as (category number, pair number), grouped by category
OutcomeItems ==
    {items \in SeqsUpTo((1..3) \X (1..Len(OutcomePairs)), MaxOutcomeRows) :
        \A i, j \in DOMAIN items : i < j => items[i][1] <= items[j][1]}

\* The outcome tables of the categories in present
OutcomeMapping(present, items) ==
    [f \in {OutcomeCategories[c] : c \in present} |->
        OutcomeTable(CHOOSE c \in present : OutcomeCategories[c] = f, items)]

OutcomeChoices ==
    {OutcomeMapping(present, items) :
        <<present, items>> \in
            {pi \in (SUBSET (1..3)) \X OutcomeItems :
                \A i \in DOMAIN pi[2] : pi[2][i][1] \in pi[1]}}

InitAggregate ==
    /\ pc = "start"
    /\ config = EmptyDict
    /\ dataframes = <<>>
    /\ appended_dict \in OutcomeChoices
    /\ appended_in = appended_dict
    /\ summary_dict = EmptyDict
    /\ linked_dict \in LinkedChoices
    /\ linked_summary_dict = EmptyDict
    /\ aggregate_df = NoTable
    /\ aggregate_summary = EmptyDict
    /\ dedupe_df = NoTable
    /\ dedupe_summary = EmptyDict
    /\ count_df = NoTable
    /\ dedup_summary = EmptyDict
    /\ raised = "None"
    /\ EnrichmentIdle
    /\ FinalizeIdle
    /\ KeywordsIdle
    /\ PreprocessIdle
    /\ LoggerSupplied
    /\ PipelineIdle
    /\ KeywordSetIdle
    /\ LoaderIdle

\* aggregate_df, aggregate_summary = aggregate_project_outputs(linked_dict, appended_dict)
CallAggregateProjectOutputs ==
    /\ pc = "start"
    /\ pc' = "aggregated"
    /\ LET r == AggregateProjectOutputs(linked_dict, appended_dict)
       IN /\ raised' = r.raised
          /\ aggregate_df' = r.df
          /\ aggregate_summary' = r.summary
          /\ appended_dict' = r.dataframes
    /\ UNCHANGED <<config, dataframes, summary_dict, linked_dict, linked_summary_dict,
                   dedupe_df, dedupe_summary, count_df, dedup_summary, appended_in>>
    /\ UNCHANGED loaderVars
    /\ UNCHANGED keywordSetVars
    /\ UNCHANGED pipelineVars
    /\ UNCHANGED loggerVars
    /\ UNCHANGED preprocessVars
    /\ UNCHANGED keywordVars
    /\ UNCHANGED finalizeVars
    /\ UNCHANGED enrichVars

NextAggregate == CallAggregateProjectOutputs

SpecAggregate == InitAggregate /\ [][NextAggregate]_vars

-----------------------------------------------------------------------------
(* Claims about the aggregator *)

CountNames == <<"publication count", "patent count", "clinical study count">>

\* aggregate_project_outputs has returned its table and summary
AggregateReturned == pc = "aggregated" /\ raised = "None"

\* The normalized (PROJECT_NUMBER, outcome identifier) pair of every row of the
\* table of category number c, as the caller passed it
NormalizedKeys(c) ==
    LET df == appended_in[OutcomeCategories[c]]
    IN [i \in 1..NRows(df) |->
           <<NormId(df.rows[i]["PROJECT_NUMBER"]), NormId(df.rows[i][OutcomeIdColumn[c]])>>]

\* The distinct normalized pairs of category number c whose PROJECT_NUMBER is
\* the one the entity row carries
PairsOf(c, number) ==
    {key \in Range(NormalizedKeys(c)) : StrCell(key[1]) = number}

IsCount(v) == v.k = "int" /\ v.s # <<>> /\ Range(v.s) \subseteq Range(DigitChars)

\* C9: after aggregate_project_outputs, every outcome count column present in
\* the aggregate table holds, in every row, an integer >= 0 and never a null,
\* and a row whose entity has no matching outcome rows holds 0.
C9_CountsFilled ==
    AggregateReturned =>
        \A c \in 1..3 :
            CountNames[c] \in ColSet(aggregate_df) =>
                \A i \in 1..NRows(aggregate_df) :
                    LET row == aggregate_df.rows[i]
                    IN /\ row[CountNames[c]] # NullCell
                       /\ IsCount(row[CountNames[c]])
                       /\ PairsOf(c, row["PROJECT_NUMBER"]) = {} =>
                              row[CountNames[c]] = CountCell(0)

\* All three count columns are there, one entity has publications and another
\* has none and carries 0
C9_Witness ==
    /\ AggregateReturned
    /\ Range(CountNames) \subseteq ColSet(aggregate_df)
    /\ \E i, j \in 1..NRows(aggregate_df) :
           /\ \A key \in Range(NormalizedKeys(1)) :
                  key[1] # NormId(aggregate_df.rows[i]["PROJECT_NUMBER"])
           /\ aggregate_df.rows[i]["publication count"] = CountCell(0)
           /\ PairsOf(1, aggregate_df.rows[j]["PROJECT_NUMBER"]) # {}
           /\ aggregate_df.rows[j]["publication count"] = CountCell(1)

\* C10: for each outcome category, the count merged onto an entity is the
\* number of distinct normalized (PROJECT_NUMBER, outcome identifier) pairs of
\* the outcome table with the entity's PROJECT_NUMBER, a repeated pair counted
\* once, and the category's statistics are those of the normalized composite
\* keys; three rows of one project, the first two with the same identifier and
\* the third with another, give the project a count of 2 and total_duplicates
\* 2, extra_duplicates 1, unique_duplicate_rows 1.
C10_DistinctPairsCounted ==
    AggregateReturned =>
        \A c \in 1..3 :
            LET keys == NormalizedKeys(c)
                stats == aggregate_summary[CountNames[c]]
            IN /\ CountNames[c] \in ColSet(aggregate_df)
               /\ \A i \in 1..NRows(aggregate_df) :
                      aggregate_df.rows[i][CountNames[c]]
                          = CountCell(Cardinality(
                                PairsOf(c, aggregate_df.rows[i]["PROJECT_NUMBER"])))
               /\ StatsAgree(stats, keys)
               /\ (/\ Len(keys) = 3
                   /\ keys[1] = keys[2]
                   /\ keys[3][1] = keys[1][1]
                   /\ keys[3][2] # keys[1][2]) =>
                      /\ stats = [unique_duplicate_rows |-> 1, total_duplicates |-> 2,
                                  extra_duplicates |-> 1]
                      /\ \A i \in 1..NRows(aggregate_df) :
                             aggregate_df.rows[i]["PROJECT_NUMBER"] = StrCell(keys[1][1]) =>
                                 aggregate_df.rows[i][CountNames[c]] = CountCell(2)

\* Publications (X1, 1), (X1, 1), (X1, 2) were counted onto an entity X1
C10_Witness ==
    /\ AggregateReturned
    /\ [i \in 1..NRows(appended_in["PUBLINK"]) |->
           <<appended_in["PUBLINK"].rows[i]["PROJECT_NUMBER"],
             appended_in["PUBLINK"].rows[i]["PMID"]>>]
           = <<OutcomePairs[1], OutcomePairs[1], OutcomePairs[3]>>
    /\ aggregate_summary["publication count"]
           = [unique_duplicate_rows |-> 1, total_duplicates |-> 2, extra_duplicates |-> 1]
    /\ \E i \in 1..NRows(aggregate_df) :
           /\ aggregate_df.rows[i]["PROJECT_NUMBER"] = StrCell(<<"X", "1">>)
           /\ aggregate_df.rows[i]["publication count"] = CountCell(2)

\* C11: when the linked mapping holds no PRJ_PRJABS table,
\* aggregate_project_outputs returns an empty table and raises nothing.
C11_AbsentBaseReturnsEmpty ==
    (pc = "aggregated" /\ "PRJ_PRJABS" \notin DOMAIN linked_dict) =>
        /\ raised = "None"
        /\ NRows(aggregate_df) = 0

\* The count labels of the outcome categories the caller's mapping holds
PresentCountNames ==
    {CountNames[c] : c \in {c \in 1..3 : OutcomeCategories[c] \in DOMAIN appended_in}}

\* C12: when an outcome category is absent from the appended mapping,
\* aggregate_project_outputs raises nothing and returns the aggregate table
\* with the count columns of exactly the present categories and a summary
\* holding the statistics of exactly the present categories.
C12_AbsentCategorySkipped ==
    (/\ pc = "aggregated"
     /\ "PRJ_PRJABS" \in DOMAIN linked_dict
     /\ PresentCountNames # Range(CountNames)) =>
        /\ raised = "None"
        /\ ColSet(aggregate_df) \cap Range(CountNames) = PresentCountNames
        /\ DOMAIN aggregate_summary = PresentCountNames

-----------------------------------------------------------------------------
(* Keyword enrichment: enrich_with_keyword_metrics *)

LowerLetters ==
    <<"a", "b", "c", "d", "e", "f", "g", "h", "i", "j", "k", "l", "m",
      "n", "o", "p", "q", "r", "s", "t", "u", "v", "w", "x", "y", "z">>

UpperLetters ==
    <<"A", "B", "C", "D", "E", "F", "G", "H", "I", "J", "K", "L", "M",
      "N", "O", "P", "Q", "R", "S", "T", "U", "V", "W", "X", "Y", "Z">>

LowerChar(ch) ==
    IF ch \in Range(UpperLetters)
    THEN LowerLetters[CHOOSE i \in 1..26 : UpperLetters[i] = ch]
    ELSE ch

\* str.lower()
Lower(s) == [i \in 1..Len(s) |-> LowerChar(s[i])]

\* The characters the keyword processor and \w take as part of a word: the
\* ASCII letters, the digits and the underscore
IsWordChar(ch) ==
    ch \in Range(LowerLetters) \cup Range(UpperLetters) \cup Range(DigitChars) \cup {"_"}

\* The characters of a word as one string
RECURSIVE JoinChars(_)
JoinChars(s) == IF s = <<>> THEN "" ELSE Head(s) \o JoinChars(Tail(s))

\* The words of a text, in order: the maximal runs of word characters after
\* word, the run that is open at the start of s
RECURSIVE Words(_, _)
Words(s, word) ==
    LET closed == IF word = <<>> THEN <<>> ELSE <<JoinChars(word)>>
    IN IF s = <<>> THEN closed
       ELSE IF IsWordChar(Head(s)) THEN Words(Tail(s), Append(word, Head(s)))
       ELSE closed \o Words(Tail(s), <<>>)

\* treatments and diseases, each term as its characters
Treatments == << <<"A">> >>

Diseases == << <<"b">>, <<"a">> >>

\* keyword_processor after add_keywords_from_list([kw.lower() for kw in ...]):
\* the set of one-word keywords it recognises
KeywordProcessor == {JoinChars(Lower(kw)) : kw \in Range(Treatments \o Diseases)}

\* Faulty variant of ExtractKeywords: a keyword is reported at its first
\* occurrence only
ExtractKeywordsOnce(text) ==
    UniqueInOrder(SelectSeq(Words(Lower(text), <<>>), LAMBDA w : w \in KeywordProcessor))

\* keyword_processor.extract_keywords(text): the words of the text that are
\* keywords, in order of occurrence, repeats included
ExtractKeywords(text) ==
    SelectSeq(Words(Lower(text), <<>>), LAMBDA w : w \in KeywordProcessor)

\* " | ".join(str(x).lower() for x in row if pd.notnull(x)) over the available
\* text columns
RECURSIVE CombinedText(_, _)
CombinedText(row, cols) ==
    IF cols = <<>> THEN <<>>
    ELSE LET rest == SelectSeq(Tail(cols), LAMBDA c : row[c].k # "null")
             first == Lower(PyStr(row[Head(cols)]))
         IN IF row[Head(cols)].k = "null" THEN CombinedText(row, Tail(cols))
            ELSE IF rest = <<>> THEN first
            ELSE first \o <<" ", "|", " ">> \o CombinedText(row, rest)

\* chunk_series: [series[i:i + chunk_size] for i in range(0, len(series), chunk_size)]
ChunkSeries(series, chunk_size) ==
    [k \in 1..((Len(series) + chunk_size - 1) \div chunk_size) |->
        SubSeq(series, (k - 1) * chunk_size + 1,
               IF k * chunk_size < Len(series) THEN k * chunk_size ELSE Len(series))]

\* process_batch: the three lists, one entry per text of the batch
ProcessBatch(batch) ==
    [total |-> [i \in 1..Len(batch) |-> Len(ExtractKeywords(batch[i]))],
     unique |-> [i \in 1..Len(batch) |-> Cardinality(Range(ExtractKeywords(batch[i])))],
     flagged |-> [i \in 1..Len(batch) |-> UniqueInOrder(ExtractKeywords(batch[i]))]]

\* available_cols = [col for col in text_cols if col in df.columns]
AvailableCols(cfg, df) ==
    SelectSeq(ConfigGet(cfg, "text_columns", <<>>), LAMBDA col : col \in ColSet(df))

MaxWorkersOf(cfg) == ConfigGet(cfg, "workers", 4)

\* chunk_size = max(1, len(df) // max_workers)
ChunkSize(n, max_workers) == IF n \div max_workers >= 1 THEN n \div max_workers ELSE 1

\* df["combined_text"] = ...: the column is added to the table in place
WithCombinedText(df, available_cols) ==
    Table(Append(df.cols, "combined_text"),
          [i \in 1..Len(df.rows) |->
              df.rows[i] @@ ("combined_text" :> StrCell(CombinedText(df.rows[i], available_cols)))])

\* Faulty variant of ResultOrder: the results come in the order of completion
CompletionOrder(n_chunks, done) == done

\* The order in which the executor's map hands back the chunk results: the
\* order of submission, whatever the order done in which the workers finished
ResultOrder(n_chunks, done) == [k \in 1..n_chunks |-> k]

\* [x for batch in results for x in batch[field]]
Flatten(results, field) == ConcatSeqs([k \in 1..Len(results) |-> results[k][field]])

\* enrichment_summary, without its float-valued entries and its term ranking
EnrichmentSummary(df, cfg, total_flat, flagged_flat) ==
    [total_rows_processed |-> NRows(df),
     text_columns_used |-> AvailableCols(cfg, df),
     max_workers |-> MaxWorkersOf(cfg),
     chunk_size |-> ChunkSize(NRows(df), MaxWorkersOf(cfg)),
     keyword_pool_size |-> Cardinality(Range(Treatments \o Diseases)),
     treatment_pool_size |-> Cardinality(Range(Treatments)),
     disease_pool_size |-> Cardinality(Range(Diseases)),
     total_keyword_hits |-> SumSeq(total_flat),
     rows_with_hits |-> Cardinality({i \in DOMAIN total_flat : total_flat[i] > 0}),
     rows_without_hits |-> Cardinality({i \in DOMAIN total_flat : total_flat[i] = 0}),
     rows_flagged |-> Cardinality({i \in DOMAIN flagged_flat : flagged_flat[i] # <<>>})]

\* The three columns are assigned by row position and combined_text is dropped
WithEnrichmentColumns(df, total_flat, unique_flat, flagged_flat) ==
    DropColumns(
        Table(df.cols \o <<"total count", "total unique count", "flagged">>,
              [i \in 1..Len(df.rows) |->
                  df.rows[i]
                  @@ ("total count" :> CountCell(total_flat[i]))
                  @@ ("total unique count" :> CountCell(unique_flat[i]))
                  @@ ("flagged" :> ListCell(flagged_flat[i]))]),
        {"combined_text"})

-----------------------------------------------------------------------------
(* The enrichment specification: the main thread and the pool's workers *)

\* The most rows of the table, and the most worker threads
MaxEnrichRows == 5

MaxWorkers == 2

\* (PROJECT_TITLE, ABSTRACT_TEXT) of a row: keywords repeated and in mixed
\* case; a keyword inside a longer word and one next to the column separator;
\* no keyword
RowTexts ==
    << <<StrCell(<<"b", " ", "A", ",", " ", "b">>), NullCell>>,
       <<StrCell(<<"a", "b">>), StrCell(<<"C", " ", "a">>)>>,
       <<NullCell, StrCell(<<"c">>)>> >>

EnrichTable(kinds) ==
    Table(<<"PROJECT_TITLE", "ABSTRACT_TEXT">>,
          [i \in 1..Len(kinds) |->
              [PROJECT_TITLE |-> RowTexts[kinds[i]][1],
               ABSTRACT_TEXT |-> RowTexts[kinds[i]][2]]])

\* The tables of at most MaxEnrichRows rows in which neighbouring rows differ, so
\* that a result placed one row off shows
EnrichTables ==
    {EnrichTable(kinds) :
        kinds \in {ks \in SeqsUpTo(1..Len(RowTexts), MaxEnrichRows) :
                      \A i \in 1..(Len(ks) - 1) : ks[i] # ks[i + 1]}}

EnrichConfigs ==
    {("workers" :> w) : w \in 1..MaxWorkers}
        \cup {("workers" :> w) @@ ("text_columns" :> cols) :
                 w \in 1..MaxWorkers,
                 cols \in {<<"PHR">>, <<"PROJECT_TITLE", "PHR", "ABSTRACT_TEXT">>}}

tableVars == <<dataframes, appended_dict, summary_dict, linked_dict, linked_summary_dict,
               aggregate_df, aggregate_summary, dedupe_df, dedupe_summary, count_df,
               dedup_summary, appended_in>>

\* No table operation of the other stages has been called
TablesIdle ==
    /\ dataframes = <<>>
    /\ appended_dict = EmptyDict
    /\ summary_dict = EmptyDict
    /\ linked_dict = EmptyDict
    /\ linked_summary_dict = EmptyDict
    /\ aggregate_df = NoTable
    /\ aggregate_summary = EmptyDict
    /\ dedupe_df = NoTable
    /\ dedupe_summary = EmptyDict
    /\ count_df = NoTable
    /\ dedup_summary = EmptyDict
    /\ appended_in = EmptyDict

InitEnrich ==
    /\ pc = "start"
    /\ raised = "None"
    /\ config \in EnrichConfigs
    /\ enrich_df \in EnrichTables
    /\ chunks = <<>>
    /\ running = {}
    /\ futures = EmptyDict
    /\ completed = <<>>
    /\ enrich_result = EmptyDict
    /\ TablesIdle
    /\ FinalizeIdle
    /\ KeywordsIdle
    /\ PreprocessIdle
    /\ logger \in BOOLEAN
    /\ PipelineIdle
    /\ KeywordSetIdle
    /\ LoaderIdle

\* enrich_with_keyword_metrics up to the submission of the chunks: the early
\* return without text columns, which logs a warning first, else combined_text
\* and the chunks.  With no chunk at all the map is empty at once and the
\* summary's division by len(df) raises.  A call on logger=None raises
\* AttributeError.
EnrichSubmit ==
    /\ pc = "start"
    /\ LET available_cols == AvailableCols(config, enrich_df)
           df == WithCombinedText(enrich_df, available_cols)
       IN IF available_cols = <<>>
          THEN /\ pc' = "enriched"
               /\ IF logger
                  THEN /\ enrich_result' = [kind |-> "table", df |-> enrich_df]
                       /\ UNCHANGED raised
                  ELSE /\ raised' = "AttributeError"
                       /\ UNCHANGED enrich_result
               /\ UNCHANGED <<enrich_df, chunks>>
          ELSE /\ enrich_df' = df
               /\ chunks' = ChunkSeries([i \in 1..NRows(df) |-> df.rows[i]["combined_text"].s],
                                        ChunkSize(NRows(df), MaxWorkersOf(config)))
               /\ IF NRows(df) = 0
                  THEN pc' = "enriched" /\ raised' = "ZeroDivisionError"
                  ELSE pc' = "mapping" /\ UNCHANGED raised
               /\ UNCHANGED enrich_result
    /\ UNCHANGED <<config, running, futures, completed>>
    /\ UNCHANGED loaderVars
    /\ UNCHANGED keywordSetVars
    /\ UNCHANGED pipelineVars
    /\ UNCHANGED loggerVars
    /\ UNCHANGED preprocessVars
    /\ UNCHANGED keywordVars
    /\ UNCHANGED finalizeVars
    /\ UNCHANGED tableVars

\* A free worker thread takes the next chunk of the executor's queue
WorkerTake ==
    /\ pc = "mapping"
    /\ Cardinality(running) < MaxWorkersOf(config)
    /\ \E c \in 1..Len(chunks) :
           /\ c \notin running \cup DOMAIN futures
           /\ \A b \in 1..(c - 1) : b \in running \cup DOMAIN futures
           /\ running' = running \cup {c}
    /\ UNCHANGED <<pc, config, raised, enrich_df, chunks, futures, completed, enrich_result>>
    /\ UNCHANGED loaderVars
    /\ UNCHANGED keywordSetVars
    /\ UNCHANGED pipelineVars
    /\ UNCHANGED loggerVars
    /\ UNCHANGED preprocessVars
    /\ UNCHANGED keywordVars
    /\ UNCHANGED finalizeVars
    /\ UNCHANGED tableVars

\* A worker thread finishes process_batch on its chunk and sets the future
WorkerFinish ==
    /\ pc = "mapping"
    /\ \E c \in running :
           /\ running' = running \ {c}
           /\ futures' = futures @@ (c :> ProcessBatch(chunks[c]))
           /\ completed' = Append(completed, c)
    /\ UNCHANGED <<pc, config, raised, enrich_df, chunks, enrich_result>>
    /\ UNCHANGED loaderVars
    /\ UNCHANGED keywordSetVars
    /\ UNCHANGED pipelineVars
    /\ UNCHANGED loggerVars
    /\ UNCHANGED preprocessVars
    /\ UNCHANGED keywordVars
    /\ UNCHANGED finalizeVars
    /\ UNCHANGED tableVars

\* list(executor.map(...)) has every result; the lists are flattened, the
\* summary built, the columns assigned, logger.info called and the pair returned
EnrichCollect ==
    /\ pc = "mapping"
    /\ DOMAIN futures = 1..Len(chunks)
    /\ LET order == ResultOrder(Len(chunks), completed)
           results == [k \in 1..Len(order) |-> futures[order[k]]]
           total_flat == Flatten(results, "total")
           unique_flat == Flatten(results, "unique")
           flagged_flat == Flatten(results, "flagged")
           df == WithEnrichmentColumns(enrich_df, total_flat, unique_flat, flagged_flat)
       IN /\ enrich_df' = df
          /\ IF logger
             THEN /\ enrich_result' =
                         [kind |-> "pair", df |-> df,
                          summary |-> EnrichmentSummary(enrich_df, config, total_flat,
                                                        flagged_flat)]
                  /\ UNCHANGED raised
             ELSE /\ raised' = "AttributeError"
                  /\ UNCHANGED enrich_result
    /\ pc' = "enriched"
    /\ UNCHANGED <<config, chunks, running, futures, completed>>
    /\ UNCHANGED loaderVars
    /\ UNCHANGED keywordSetVars
    /\ UNCHANGED pipelineVars
    /\ UNCHANGED loggerVars
    /\ UNCHANGED preprocessVars
    /\ UNCHANGED keywordVars
    /\ UNCHANGED finalizeVars
    /\ UNCHANGED tableVars

NextEnrich == EnrichSubmit \/ WorkerTake \/ WorkerFinish \/ EnrichCollect

SpecEnrich == InitEnrich /\ [][NextEnrich]_vars

-----------------------------------------------------------------------------
(* Claims about the keyword enrichment *)

\* The combined text of row i, from the row's own text columns
OwnText(i) == CombinedText(enrich_df.rows[i], AvailableCols(config, enrich_df))

EnrichReturnedPair ==
    pc = "enriched" /\ raised = "None" /\ enrich_result # EmptyDict /\ enrich_result.kind = "pair"

\* C13: for every row count n >= 1, worker count w >= 1 and order in which
\* the workers run and finish, the chunks are contiguous, disjoint and cover
\* every row once, of size max(1, n // w), and the values written to row i of
\* 'total count', 'total unique count' and 'flagged' are those computed from
\* row i's own combined text.
C13_RowsKeepTheirResults ==
    /\ pc = "mapping" =>
           LET n == NRows(enrich_df)
               w == config["workers"]
               size == IF n \div w > 1 THEN n \div w ELSE 1
           IN /\ ConcatSeqs(chunks) = [i \in 1..n |-> OwnText(i)]
              /\ \A k \in 1..Len(chunks) :
                     /\ Len(chunks[k]) >= 1
                     /\ k < Len(chunks) => Len(chunks[k]) = size
                     /\ Len(chunks[k]) <= size
    /\ EnrichReturnedPair =>
           /\ NRows(enrich_result.df) = NRows(enrich_df)
           /\ \A i \in 1..NRows(enrich_df) :
                  LET row == enrich_result.df.rows[i]
                      own == ExtractKeywords(OwnText(i))
                  IN /\ row["PROJECT_TITLE"] = enrich_df.rows[i]["PROJECT_TITLE"]
                     /\ row["ABSTRACT_TEXT"] = enrich_df.rows[i]["ABSTRACT_TEXT"]
                     /\ row["total count"] = CountCell(Len(own))
                     /\ row["total unique count"] = CountCell(Cardinality(Range(own)))
                     /\ row["flagged"] = ListCell(UniqueInOrder(own))

\* Five rows in chunks of 2, 2 and 1 for two workers, the second chunk
\* finished before the first, and rows with different results
C13_Witness ==
    /\ EnrichReturnedPair
    /\ NRows(enrich_df) = 5
    /\ [k \in 1..Len(chunks) |-> Len(chunks[k])] = <<2, 2, 1>>
    /\ completed = <<2, 1, 3>>
    /\ enrich_df.rows[1]["total count"] = CountCell(3)
    /\ enrich_df.rows[3]["total count"] = CountCell(1)
    /\ enrich_df.rows[5]["total count"] = CountCell(0)

\* The words of row i's text, and the positions among them of a keyword
WordsOf(i) == Words(Lower(OwnText(i)), <<>>)

Occurrences(i) == {p \in DOMAIN WordsOf(i) : WordsOf(i)[p] \in {"a", "b"}}

FirstOccurrence(i, kw) ==
    CHOOSE p \in Occurrences(i) :
        WordsOf(i)[p] = kw /\ \A q \in Occurrences(i) : WordsOf(i)[q] = kw => p <= q

\* C14: for every enriched row, 'total count' is the number of keyword
\* occurrences in the row's text, repeats counted; 'flagged' lists each
\* matched keyword exactly once, in order of first occurrence; 'total unique
\* count' is the length of 'flagged' and at most 'total count'; and 'total
\* count' is 0 exactly when 'flagged' is empty.
C14_KeywordMetrics ==
    EnrichReturnedPair =>
        \A i \in 1..NRows(enrich_result.df) :
            LET row == enrich_result.df.rows[i]
                flagged == row["flagged"].s
            IN /\ row["total count"] = CountCell(Cardinality(Occurrences(i)))
               /\ row["flagged"].k = "list"
               /\ Range(flagged) = {WordsOf(i)[p] : p \in Occurrences(i)}
               /\ \A j, k \in DOMAIN flagged :
                      j < k => FirstOccurrence(i, flagged[j]) < FirstOccurrence(i, flagged[k])
               /\ row["total unique count"] = CountCell(Len(flagged))
               /\ Len(flagged) <= Cardinality(Occurrences(i))
               /\ (row["total count"] = CountCell(0)) <=> (flagged = <<>>)

\* A row with the keyword b twice around the keyword a, and a row with none
C14_Witness ==
    /\ EnrichReturnedPair
    /\ \E i, j \in 1..NRows(enrich_result.df) :
           /\ enrich_result.df.rows[i]["total count"] = CountCell(3)
           /\ enrich_result.df.rows[i]["total unique count"] = CountCell(2)
           /\ enrich_result.df.rows[i]["flagged"] = ListCell(<<"b", "a">>)
           /\ enrich_result.df.rows[j]["total count"] = CountCell(0)
           /\ enrich_result.df.rows[j]["flagged"] = ListCell(<<>>)

\* C15: a component returns its table together with a summary dict on every
\* return path; enrich_with_keyword_metrics returns a (table, summary) pair
\* also when none of the configured text columns exists in the table.
C15_EnrichReturnsPair ==
    (pc = "enriched" /\ raised = "None") =>
        /\ enrich_result.kind = "pair"
        /\ "summary" \in DOMAIN enrich_result

-----------------------------------------------------------------------------
(* Training-set filter: filter_df *)

\* A table with its row index: index[i] is the label of row i
IndexedTable(cols, rows, index) == [cols |-> cols, rows |-> rows, index |-> index]

\* pd.DataFrame()
EmptyFrame == IndexedTable(<<>>, <<>>, <<>>)

\* df.empty: no row or no column
IsEmpty(df) == df.rows = <<>> \/ df.cols = <<>>

\* The number a sequence of decimal digits denotes
RECURSIVE DigitsValue(_)
DigitsValue(s) ==
    IF s = <<>> THEN 0
    ELSE 10 * DigitsValue(SubSeq(s, 1, Len(s) - 1))
         + (CHOOSE n \in 0..9 : Digit(n) = s[Len(s)])

\* The integer an int cell holds
IntValue(c) == IF Head(c.s) = "-" THEN 0 - DigitsValue(Tail(c.s)) ELSE DigitsValue(c.s)

\* The int cell of an integer
SignedCell(n) == IF n < 0 THEN IntCell(<<"-">> \o ToDigits(0 - n)) ELSE IntCell(ToDigits(n))

\* df[mask]: the rows the mask selects, with their index labels
SelectRows(df, mask) ==
    IndexedTable(df.cols, SelectByMask(df.rows, mask), SelectByMask(df.index, mask))

\* df[columns]: the listed columns, in the listed order
SelectColumns(df, columns) ==
    IndexedTable(columns,
                 [i \in 1..Len(df.rows) |-> Project(df.rows[i], Range(columns))],
                 df.index)

\* Faulty variant of AtLeast: the comparison is strict
StrictlyAbove(df, col, cutoff) ==
    [i \in 1..Len(df.rows) |->
        df.rows[i][col].k # "null" /\ IntValue(df.rows[i][col]) > cutoff]

\* df[required_col] >= cutoff_value; a NaN compares False
AtLeast(df, col, cutoff) ==
    [i \in 1..Len(df.rows) |->
        df.rows[i][col].k # "null" /\ IntValue(df.rows[i][col]) >= cutoff]

\* df[required_col] < cutoff_value; a NaN compares False
Below(df, col, cutoff) ==
    [i \in 1..Len(df.rows) |->
        df.rows[i][col].k # "null" /\ IntValue(df.rows[i][col]) < cutoff]

\* round(part / whole * 100, 2), in hundredths of a percent
Percent(part, whole) == (2 * 10000 * part + whole) \div (2 * whole)

SeqMin(s) == CHOOSE x \in Range(s) : \A y \in Range(s) : x <= y

SeqMax(s) == CHOOSE x \in Range(s) : \A y \in Range(s) : x >= y

\* [int(index.min()), int(index.max())] if not df.empty else None (the empty tuple)
IndexRange(df) == IF IsEmpty(df) THEN <<>> ELSE <<SeqMin(df.index), SeqMax(df.index)>>

\* int(cutoff_value) if cutoff_value is not None else int(config.get("cutoff_value", 0))
CutoffOf(cfg, cutoff) == IF cutoff # <<>> THEN cutoff[1] ELSE ConfigGet(cfg, "cutoff_value", 0)

\* The four validations of filter_df, in order; "ok" if all pass
FilterValidation(df, cfg) ==
    LET columns_to_extract == ConfigGet(cfg, "ml_columns", <<>>)
    IN IF IsEmpty(df) THEN "empty"
       ELSE IF "total unique count" \notin ColSet(df) THEN "no count column"
       ELSE IF columns_to_extract = <<>> THEN "no ml_columns"
       ELSE IF \E col \in Range(columns_to_extract) : col \notin ColSet(df) THEN "missing ml_columns"
       ELSE "ok"

\* Faulty variant of FilterDf: the input is returned whole as MLdf whatever
\* the validation says
FilterDfUnvalidated(df, cfg, cutoff) ==
    [MLdf |-> df, MLdf_dropped |-> EmptyFrame, finalize_summary |-> EmptyDict]

\* filter_df: MLdf, MLdf_dropped and finalize_summary
FilterDf(df, cfg, cutoff) ==
    IF FilterValidation(df, cfg) # "ok"
    THEN [MLdf |-> EmptyFrame, MLdf_dropped |-> EmptyFrame, finalize_summary |-> EmptyDict]
    ELSE LET columns_to_extract == cfg["ml_columns"]
             cut == CutoffOf(cfg, cutoff)
             df_retained == SelectRows(df, AtLeast(df, "total unique count", cut))
             df_dropped == SelectRows(df, Below(df, "total unique count", cut))
         IN [MLdf |-> SelectColumns(df_retained, columns_to_extract),
             MLdf_dropped |-> SelectColumns(df_dropped, columns_to_extract),
             finalize_summary |->
                 [ml_columns_used |-> columns_to_extract,
                  cutoff_value |-> cut,
                  total_input_rows |-> NRows(df),
                  total_retained_rows |-> NRows(df_retained),
                  total_dropped_rows |-> NRows(df_dropped),
                  percent_retained |-> Percent(NRows(df_retained), NRows(df)),
                  percent_dropped |-> Percent(NRows(df_dropped), NRows(df)),
                  retained_index_range |-> IndexRange(df_retained),
                  dropped_index_range |-> IndexRange(df_dropped)]]

-----------------------------------------------------------------------------
(* The filter specification *)

MaxFilterRows == 4

\* 'total unique count' values, and the cutoffs tried
CountValues == {0, 1, 3}

Cutoffs == {<<>>} \cup {<<n>> : n \in (0 - 1)..4}

\* The enriched table as read from keywords.csv: row i has index label i - 1;
\* with_count says whether it has the count column
KeywordsTable(counts, with_count) ==
    IndexedTable(
        IF with_count THEN <<"APPLICATION_ID", "total unique count">> ELSE <<"APPLICATION_ID">>,
        [i \in 1..Len(counts) |->
            IF with_count
            THEN ("APPLICATION_ID" :> StrCell(<<Digit(i)>>))
                 @@ ("total unique count" :> SignedCell(counts[i]))
            ELSE ("APPLICATION_ID" :> StrCell(<<Digit(i)>>))],
        [i \in 1..Len(counts) |-> i - 1])

KeywordsTables ==
    {KeywordsTable(counts, TRUE) : counts \in SeqsUpTo(CountValues, MaxFilterRows)}
        \cup {KeywordsTable([i \in 1..n |-> 0], FALSE) : n \in 0..MaxFilterRows}

FilterConfigs ==
    {EmptyDict, ("cutoff_value" :> 1), ("ml_columns" :> <<>>)}
        \cup {("ml_columns" :> columns) @@ extra :
                 columns \in {<<"APPLICATION_ID">>,
                              <<"total unique count", "APPLICATION_ID">>,
                              <<"APPLICATION_ID", "PHR">>},
                 extra \in {EmptyDict, ("cutoff_value" :> 1)}}

InitFilter ==
    /\ pc = "start"
    /\ raised = "None"
    /\ config \in FilterConfigs
    /\ keywords_df \in KeywordsTables
    /\ cutoff_value \in Cutoffs
    /\ filter_result = EmptyDict
    /\ TablesIdle
    /\ EnrichmentIdle
    /\ KeywordsIdle
    /\ PreprocessIdle
    /\ LoggerSupplied
    /\ PipelineIdle
    /\ KeywordSetIdle
    /\ LoaderIdle

\* MLdf, MLdf_dropped, finalize_summary = filter_df(keywords_df, config, logger, cutoff_value)
CallFilterDf ==
    /\ pc = "start"
    /\ pc' = "filtered"
    /\ filter_result' = FilterDf(keywords_df, config, cutoff_value)
    /\ UNCHANGED <<config, raised, keywords_df, cutoff_value>>
    /\ UNCHANGED loaderVars
    /\ UNCHANGED keywordSetVars
    /\ UNCHANGED pipelineVars
    /\ UNCHANGED loggerVars
    /\ UNCHANGED preprocessVars
    /\ UNCHANGED keywordVars
    /\ UNCHANGED tableVars
    /\ UNCHANGED enrichVars

NextFilter == CallFilterDf

SpecFilter == InitFilter /\ [][NextFilter]_vars

-----------------------------------------------------------------------------
(* Claims about the training filter *)

\* The cutoff in force: the argument if given, else the configured one, else 0
EffectiveCutoff ==
    IF cutoff_value # <<>> THEN cutoff_value[1]
    ELSE IF "cutoff_value" \in DOMAIN config THEN config["cutoff_value"] ELSE 0

\* The count the input table holds in the row labelled idx
CountAt(idx) == IntValue(keywords_df.rows[idx + 1]["total unique count"])

Filtered == pc = "filtered" /\ FilterValidation(keywords_df, config) = "ok"

Ascending(s) == \A i, j \in DOMAIN s : i < j => s[i] < s[j]

C17_SoftFailures ==
    (/\ pc = "filtered"
     /\ \/ NRows(keywords_df) = 0
        \/ "total unique count" \notin ColSet(keywords_df)
        \/ "ml_columns" \notin DOMAIN config
        \/ config["ml_columns"] = <<>>
        \/ \E col \in Range(config["ml_columns"]) : col \notin ColSet(keywords_df)) =>
        /\ raised = "None"
        /\ filter_result = [MLdf |-> EmptyFrame, MLdf_dropped |-> EmptyFrame,
                            finalize_summary |-> EmptyDict]

\* A non-empty table with the count column was refused for an ml_columns entry
\* it does not have
C17_Witness ==
    /\ pc = "filtered"
    /\ NRows(keywords_df) > 0
    /\ "total unique count" \in ColSet(keywords_df)
    /\ "ml_columns" \in DOMAIN config
    /\ "PHR" \in Range(config["ml_columns"])
    /\ filter_result.MLdf = EmptyFrame
    /\ filter_result.finalize_summary = EmptyDict

-----------------------------------------------------------------------------
(* Keyword variant generator: generate_keyword_variants *)

\* unidecode on one character: the ASCII transliteration ("e_acute" stands
\* for the letter e with an acute accent)
UnidecodeChar(ch) == IF ch = "e_acute" THEN "e" ELSE ch

Unidecode(s) == [i \in 1..Len(s) |-> UnidecodeChar(s[i])]

\* s.endswith(suffix)
EndsWith(s, suffix) ==
    Len(s) >= Len(suffix) /\ SubSeq(s, Len(s) - Len(suffix) + 1, Len(s)) = suffix

\* suffix in s
Contains(s, sub) ==
    \E i \in 1..(Len(s) - Len(sub) + 1) : SubSeq(s, i, i + Len(sub) - 1) = sub

\* s.replace(old, new): every occurrence, from the left, without overlap
RECURSIVE Replace(_, _, _)
Replace(s, old, new) ==
    IF Len(s) < Len(old) THEN s
    ELSE IF SubSeq(s, 1, Len(old)) = old
         THEN new \o Replace(SubSeq(s, Len(old) + 1, Len(s)), old, new)
         ELSE <<Head(s)>> \o Replace(Tail(s), old, new)

\* re.sub(r"[^\w\s]", "", s): only word characters and whitespace stay
KeywordClean(s) == SelectSeq(s, LAMBDA ch : IsWordChar(ch) \/ IsSpace(ch))

\* The rule-based plural of the punctuation-free form
RulePlural(keyword_clean) ==
    IF /\ EndsWith(keyword_clean, <<"y">>)
       /\ ~\E v \in {"a", "e", "o", "u"} : EndsWith(keyword_clean, <<v, "y">>)
    THEN SubSeq(keyword_clean, 1, Len(keyword_clean) - 1) \o <<"i", "e", "s">>
    ELSE IF \E suffix \in {<<"s">>, <<"x">>, <<"z">>, <<"c", "h">>, <<"s", "h">>} :
                EndsWith(keyword_clean, suffix)
    THEN keyword_clean \o <<"e", "s">>
    ELSE keyword_clean \o <<"s">>

\* generate_keyword_variants, as the set its list is made from
GenerateKeywordVariants(kw) ==
    LET original == Unidecode(Lower(Strip(kw)))
        hyphen_space == Replace(original, <<"-">>, <<" ">>)
    IN {original}
           \cup (IF EndsWith(original, <<"s">>) THEN {} ELSE {original \o <<"s">>})
           \cup (IF Contains(original, <<"'", "s">>)
                 THEN {Replace(original, <<"'", "s">>, <<"s">>)} ELSE {})
           \cup (IF Contains(original, <<"-">>)
                 THEN {hyphen_space, hyphen_space \o <<"s">>} ELSE {})
           \cup {RulePlural(KeywordClean(original))}

-----------------------------------------------------------------------------
(* The variant generator specification *)

MaxSeedLen == 3

SeedChars == {"a", "y", "s", "x", "-", "'", " ", "B", "e_acute"}

ClinicalTrial == <<"c", "l", "i", "n", "i", "c", "a", "l", "-", "t", "r", "i", "a", "l">>

Seeds == SeqsUpTo(SeedChars, MaxSeedLen) \cup {ClinicalTrial}

InitVariants ==
    /\ pc = "start"
    /\ raised = "None"
    /\ config = EmptyDict
    /\ keyword \in Seeds
    /\ variants = {}
    /\ TablesIdle
    /\ EnrichmentIdle
    /\ FinalizeIdle
    /\ PreprocessIdle
    /\ LoggerSupplied
    /\ PipelineIdle
    /\ KeywordSetIdle
    /\ LoaderIdle

\* variants = generate_keyword_variants(keyword)
CallGenerateKeywordVariants ==
    /\ pc = "start"
    /\ pc' = "generated"
    /\ variants' = GenerateKeywordVariants(keyword)
    /\ UNCHANGED <<config, raised, keyword>>
    /\ UNCHANGED loaderVars
    /\ UNCHANGED keywordSetVars
    /\ UNCHANGED pipelineVars
    /\ UNCHANGED loggerVars
    /\ UNCHANGED preprocessVars
    /\ UNCHANGED tableVars
    /\ UNCHANGED enrichVars
    /\ UNCHANGED finalizeVars

NextVariants == CallGenerateKeywordVariants

SpecVariants == InitVariants /\ [][NextVariants]_vars

-----------------------------------------------------------------------------
(* Claims about the variant generator *)

\* C18: variant generation does not grow under repeated application: for
\* every seed x and every variant v of x, the variants of v are among the
\* variants of x.
C18_VariantsClosed ==
    pc = "generated" =>
        \A v \in variants : GenerateKeywordVariants(v) \subseteq variants

\* C19: for the seed "clinical-trial" the variants include "clinical-trial",
\* "clinical trial", "clinical-trials", "clinical trials", "clinicaltrial" and
\* "clinicaltrials".
C19_ClinicalTrialVariants ==
    (pc = "generated" /\ keyword = ClinicalTrial) =>
        {ClinicalTrial,
         Replace(ClinicalTrial, <<"-">>, <<" ">>),
         ClinicalTrial \o <<"s">>,
         Replace(ClinicalTrial, <<"-">>, <<" ">>) \o <<"s">>,
         Replace(ClinicalTrial, <<"-">>, <<>>),
         Replace(ClinicalTrial, <<"-">>, <<>>) \o <<"s">>} \subseteq variants

-----------------------------------------------------------------------------
(* Keyword list: enrich_keywords *)

\* The words of stopwords.words('english') that the characters of the seed
\* terms can spell
Stopwords ==
    {<<"a">>, <<"a", "s">>, <<"b", "e">>, <<"b", "y">>, <<"i">>, <<"i", "s">>,
     <<"s">>, <<"y">>}

\* sorted(S) for a set of strings: ascending code point order
RECURSIVE SortedStrings(_)
SortedStrings(S) ==
    IF S = {} THEN <<>>
    ELSE LET least == CHOOSE s \in S : \A t \in S \ {s} : LexLess(s, t)
         IN <<least>> \o SortedStrings(S \ {least})

\* The variants of every seed in turn, each seed's variants sorted on their own
RECURSIVE EnrichKeywordsBySeed(_, _)
EnrichKeywordsBySeed(kws, without_stopwords) ==
    IF kws = <<>> THEN <<>>
    ELSE LET kw_norm == Unidecode(Lower(Strip(Head(kws))))
         IN IF without_stopwords /\ kw_norm \in Stopwords
            THEN EnrichKeywordsBySeed(Tail(kws), without_stopwords)
            ELSE SortedStrings(GenerateKeywordVariants(kw_norm))
                     \o EnrichKeywordsBySeed(Tail(kws), without_stopwords)

\* The set enrich_keywords has collected after the seeds kws
RECURSIVE EnrichedSet(_, _)
EnrichedSet(kws, stopword_set) ==
    IF kws = <<>> THEN {}
    ELSE LET kw == kws[Len(kws)]
             before == EnrichedSet(SubSeq(kws, 1, Len(kws) - 1), stopword_set)
             kw_norm == Unidecode(Lower(Strip(kw)))
         IN IF kw_norm \in stopword_set
            THEN before
            ELSE before \cup GenerateKeywordVariants(kw_norm)

\* enrich_keywords(keywords, remove_stopwords)
EnrichKeywords(kws, without_stopwords) ==
    LET stopword_set == IF without_stopwords THEN Stopwords ELSE {}
    IN SortedStrings(EnrichedSet(kws, stopword_set))

MaxSeedTerms == 2

\* Seed terms: stopwords, as they are and in another case or with blanks around
\* them, and words that are not stopwords
SeedTerms ==
    {<<"a">>, <<" ", "A">>, <<"b", "e">>, <<"B">>, <<"x">>, <<"x", "y">>,
     <<"y", "-", "x">>, <<"e_acute">>}

InitKeywordSet ==
    /\ pc = "seeds"
    /\ raised = "None"
    /\ config = EmptyDict
    /\ keywords \in SeqsUpTo(SeedTerms, MaxSeedTerms)
    /\ remove_stopwords \in BOOLEAN
    /\ enriched = <<>>
    /\ TablesIdle
    /\ EnrichmentIdle
    /\ FinalizeIdle
    /\ KeywordsIdle
    /\ PreprocessIdle
    /\ LoggerSupplied
    /\ PipelineIdle
    /\ LoaderIdle

\* enriched = enrich_keywords(keywords, remove_stopwords)
CallEnrichKeywords ==
    /\ pc = "seeds"
    /\ pc' = "keywords_enriched"
    /\ enriched' = EnrichKeywords(keywords, remove_stopwords)
    /\ UNCHANGED <<config, raised, keywords, remove_stopwords>>
    /\ UNCHANGED <<tableVars, enrichVars, finalizeVars, keywordVars, preprocessVars,
                   loggerVars, pipelineVars>>
    /\ UNCHANGED loaderVars

NextKeywordSet == CallEnrichKeywords

SpecKeywordSet == InitKeywordSet /\ [][NextKeywordSet]_vars

-----------------------------------------------------------------------------
(* Claims about the keyword list *)

\* The normalized form of the i-th seed term
NormalizedSeed(i) == Unidecode(Lower(Strip(keywords[i])))

\* The seed terms enrich_keywords does not discard
KeptSeeds == {i \in DOMAIN keywords : ~(remove_stopwords /\ NormalizedSeed(i) \in Stopwords)}

\* The seed terms without the i-th
WithoutSeed(i) == SubSeq(keywords, 1, i - 1) \o SubSeq(keywords, i + 1, Len(keywords))

\* C25: the list enrich_keywords returns is in strictly ascending order, so
\* without duplicates, and holds exactly the variants of the normalized seeds
\* that were not discarded; with remove_stopwords set, a seed whose normalized
\* form is a stopword can be left out of the list of seeds without changing
\* the result, and without it the variants of every seed are in the result.
C25_EnrichedKeywords ==
    pc = "keywords_enriched" =>
        /\ \A i \in 1..(Len(enriched) - 1) : LexLess(enriched[i], enriched[i + 1])
        /\ Range(enriched) = UNION {GenerateKeywordVariants(NormalizedSeed(i)) : i \in KeptSeeds}
        /\ remove_stopwords =>
               \A i \in DOMAIN keywords :
                   NormalizedSeed(i) \in Stopwords =>
                       Range(enriched) = Range(EnrichKeywords(WithoutSeed(i), TRUE))
        /\ ~remove_stopwords =>
               \A i \in DOMAIN keywords :
                   GenerateKeywordVariants(NormalizedSeed(i)) \subseteq Range(enriched)

\* Two seeds, the first a stopword only once normalized and discarded, the
\* second kept with its variants
C25_Witness ==
    /\ pc = "keywords_enriched"
    /\ remove_stopwords
    /\ Len(keywords) = 2
    /\ keywords[1] \notin Stopwords
    /\ NormalizedSeed(1) \in Stopwords
    /\ 2 \in KeptSeeds
    /\ Len(enriched) >= 3

-----------------------------------------------------------------------------
(* Preprocess stage: preprocess and its steps *)

\* summarize_csv_load: the statistics of every loaded folder (total_memory, the
\* size of the tables in memory, is left out)
SummarizeCsvLoad(raw_dict) ==
    [folder \in FolderNames(raw_dict) |->
        LET files == FolderEntry(raw_dict, folder).files
        IN [folder |-> folder,
            file_count |-> Len(files),
            total_rows |-> SumSeq([k \in 1..Len(files) |-> NRows(files[k].df)])]]

\* The changes rename_columns records for one file: a pair for every rule whose
\* column the file had and whose new name it has afterwards
RenameChanges(df, rename_map) ==
    LET original == ColSet(df)
        updated == ColSet(RenameColumns(df, rename_map))
        renamed == SelectSeq(Sorted(DOMAIN rename_map),
                             LAMBDA col : col \in original /\ rename_map[col] \in updated)
    IN [i \in 1..Len(renamed) |-> <<renamed[i], rename_map[renamed[i]]>>]

\* The files of every folder
AllFiles(raw_dict) == UNION {Range(raw_dict[i].files) : i \in DOMAIN raw_dict}

\* rename_columns: the renamed tables and, for the files with a change, the
\* changes by file name, which are recorded only "if changes and logger"
RenameColumnsByConfig(cfg, raw_dict, log) ==
    LET rename_map == ConfigGet(cfg, "rename_columns_map", EmptyDict)
        changed == {f \in AllFiles(raw_dict) :
                       log /\ RenameChanges(f.df, rename_map) # <<>>}
    IN IF DOMAIN rename_map = {}
       THEN [renamed_dict |-> raw_dict, summary |-> EmptyDict]
       ELSE [renamed_dict |-> RenameDataframeColumns(cfg, raw_dict),
             summary |-> [name \in {f.name : f \in changed} |->
                             RenameChanges((CHOOSE f \in changed : f.name = name).df,
                                           rename_map)]]

\* The keys of the folder -> files mapping, in order
FolderOrder(raw_dict) == [i \in 1..Len(raw_dict) |-> raw_dict[i].folder]

\* One entry of metadata["load_summary"]
LoadEntry(stats, appended_summary) ==
    LET loaded == [folder |-> stats.folder,
                   file_count |-> stats.file_count,
                   total_raw_rows |-> stats.total_rows]
    IN IF stats.folder \in DOMAIN appended_summary
       THEN LET appended == appended_summary[stats.folder]
            IN loaded @@
               [appended_rows |-> ConfigGet(appended, "total_rows", 0),
                appended_columns |-> ConfigGet(appended, "total_columns", 0),
                unexpected_columns_added |-> ConfigGet(appended, "unexpected_columns_added", 0),
                unexpected_columns |-> ConfigGet(appended, "unexpected_columns", <<>>),
                skipped_due_to_mismatch |-> ConfigGet(appended, "skipped", FALSE),
                append_error |-> ConfigGet(appended, "error", "None")]
       ELSE loaded

\* assemble_preprocessing_metadata; folders are the keys of load_summary in
\* order. pd.concat of an empty list raises ValueError
AssemblePreprocessingMetadata(folders, preprocess_dict, loads, renames, appended_summary) ==
    LET appended == SelectSeq(folders, LAMBDA f : f \in DOMAIN preprocess_dict)
    IN IF appended = <<>>
       THEN [raised |-> "ValueError", metadata |-> EmptyDict]
       ELSE LET combined_df ==
                    PdConcat([i \in 1..Len(appended) |-> preprocess_dict[appended[i]]])
            IN [raised |-> "None",
                metadata |-> [load_summary |-> [i \in 1..Len(folders) |->
                                                   LoadEntry(loads[folders[i]],
                                                             appended_summary)],
                              rename_summary |-> renames,
                              total_rows |-> NRows(combined_df),
                              total_columns |-> NCols(combined_df)]]

\* build_preprocessing_summary
BuildPreprocessingSummary(metadata) ==
    LET folder_stats == ConfigGet(metadata, "load_summary", <<>>)
    IN [initial_load |->
            [initial_folder_stats |->
                [i \in 1..Len(folder_stats) |->
                    [folder |-> ConfigGet(folder_stats[i], "folder", "None"),
                     file_count |-> ConfigGet(folder_stats[i], "file_count", "None"),
                     total_raw_rows |-> ConfigGet(folder_stats[i], "total_raw_rows", "None")]]],
        preprocessing |->
            [columns_renamed |-> ConfigGet(metadata, "rename_summary", EmptyDict)],
        appended |->
            [folder_summaries |->
                [i \in 1..Len(folder_stats) |->
                    [folder |-> ConfigGet(folder_stats[i], "folder", "None"),
                     appended_rows |-> ConfigGet(folder_stats[i], "appended_rows", "None"),
                     appended_columns |->
                         ConfigGet(folder_stats[i], "appended_columns", "None"),
                     unexpected_columns_added |->
                         ConfigGet(folder_stats[i], "unexpected_columns_added", "None"),
                     unexpected_columns |->
                         ConfigGet(folder_stats[i], "unexpected_columns", "None"),
                     skipped_due_to_mismatch |->
                         ConfigGet(folder_stats[i], "skipped_due_to_mismatch", "None"),
                     append_error |-> ConfigGet(folder_stats[i], "append_error", "None")]],
             total_rows |-> ConfigGet(metadata, "total_rows", "None"),
             total_columns |-> ConfigGet(metadata, "total_columns", "None")]]

-----------------------------------------------------------------------------
(* The preprocess specification: the steps of preprocess, one after the other *)

\* What load_csv_files can return: it keeps no table without rows
PreprocessInputs ==
    {raw_dict \in AppendInputs : \A f \in AllFiles(raw_dict) : NRows(f.df) > 0}

\* rename_columns_map, its keys in alphabetical order: one rule, a swap, and a
\* rule for a column no table has next to one for a column every table has
RenameMaps ==
    {("C" :> "D"),
     ("A" :> "B") @@ ("B" :> "A"),
     ("A" :> "PROJECT_NUMBER") @@ ("PMID" :> "C")}

PreprocessConfigs ==
    AppendConfigs \cup
    {cfg @@ ("rename_columns_map" :> rename_map) :
        <<cfg, rename_map>> \in AppendConfigs \X RenameMaps}

InitPreprocess ==
    /\ pc = "start"
    /\ raised = "None"
    /\ config \in PreprocessConfigs
    /\ dataframes \in PreprocessInputs
    /\ appended_dict = EmptyDict
    /\ summary_dict = EmptyDict
    /\ linked_dict = EmptyDict
    /\ linked_summary_dict = EmptyDict
    /\ aggregate_df = NoTable
    /\ aggregate_summary = EmptyDict
    /\ dedupe_df = NoTable
    /\ dedupe_summary = EmptyDict
    /\ count_df = NoTable
    /\ dedup_summary = EmptyDict
    /\ appended_in = EmptyDict
    /\ EnrichmentIdle
    /\ FinalizeIdle
    /\ KeywordsIdle
    /\ PreprocessIdle
    /\ LoggerSupplied
    /\ PipelineIdle
    /\ KeywordSetIdle
    /\ LoaderIdle

otherVars == <<linked_dict, linked_summary_dict, aggregate_df, aggregate_summary,
               dedupe_df, dedupe_summary, count_df, dedup_summary, appended_in,
               enrichVars, finalizeVars, keywordVars>>

\* raw_dict, load_summary = ingest_dataframes(config, logger); dataframes is
\* raw_dict, what load_csv_files read
IngestDataframes ==
    /\ pc = "start"
    /\ pc' = "ingested"
    /\ load_summary' = SummarizeCsvLoad(dataframes)
    /\ UNCHANGED <<config, dataframes, appended_dict, summary_dict, raised, rename_dict,
                   rename_summary, metadata_raw, preprocess_summary, otherVars>>
    /\ UNCHANGED loaderVars
    /\ UNCHANGED keywordSetVars
    /\ UNCHANGED pipelineVars
    /\ UNCHANGED loggerVars

\* rename_dict, rename_summary = rename_columns(config, raw_dict, logger)
PreprocessRename ==
    /\ pc = "ingested"
    /\ pc' = "renamed"
    /\ rename_dict' = RenameColumnsByConfig(config, dataframes, logger).renamed_dict
    /\ rename_summary' = RenameColumnsByConfig(config, dataframes, logger).summary
    /\ UNCHANGED <<config, dataframes, appended_dict, summary_dict, raised, load_summary,
                   metadata_raw, preprocess_summary, otherVars>>
    /\ UNCHANGED loaderVars
    /\ UNCHANGED keywordSetVars
    /\ UNCHANGED pipelineVars
    /\ UNCHANGED loggerVars

\* appended_dict, appended_summary = append_dataframes_by_folder(config, rename_dict,
\* logger)
PreprocessAppend ==
    /\ pc = "renamed"
    /\ pc' = "appended"
    /\ appended_dict' = AppendedDict(config, rename_dict)
    /\ summary_dict' = AppendedSummary(config, rename_dict)
    /\ UNCHANGED <<config, dataframes, raised, load_summary, rename_dict, rename_summary,
                   metadata_raw, preprocess_summary, otherVars>>
    /\ UNCHANGED loaderVars
    /\ UNCHANGED keywordSetVars
    /\ UNCHANGED pipelineVars
    /\ UNCHANGED loggerVars

\* resolve_output_path and save_pickle_files: files are written, a failure to
\* write one is logged
SavePickleFiles ==
    /\ pc = "appended"
    /\ pc' = "saved"
    /\ UNCHANGED <<config, dataframes, appended_dict, summary_dict, raised, load_summary,
                   rename_dict, rename_summary, metadata_raw, preprocess_summary,
                   otherVars>>
    /\ UNCHANGED loaderVars
    /\ UNCHANGED keywordSetVars
    /\ UNCHANGED pipelineVars
    /\ UNCHANGED loggerVars

\* metadata_raw = assemble_preprocessing_metadata(appended_dict, load_summary,
\* rename_summary, appended_summary); its exception leaves preprocess
PreprocessAssemble ==
    /\ pc = "saved"
    /\ \E result \in {AssemblePreprocessingMetadata(FolderOrder(dataframes), appended_dict,
                                                    load_summary, rename_summary,
                                                    summary_dict)} :
          /\ raised' = result.raised
          /\ metadata_raw' = result.metadata
          /\ pc' = IF result.raised = "None" THEN "assembled" ELSE "raised"
    /\ UNCHANGED <<config, dataframes, appended_dict, summary_dict, load_summary,
                   rename_dict, rename_summary, preprocess_summary, otherVars>>
    /\ UNCHANGED loaderVars
    /\ UNCHANGED keywordSetVars
    /\ UNCHANGED pipelineVars
    /\ UNCHANGED loggerVars

\* preprocess_summary = build_preprocessing_summary(metadata_raw)
PreprocessBuild ==
    /\ pc = "assembled"
    /\ pc' = "built"
    /\ preprocess_summary' = BuildPreprocessingSummary(metadata_raw)
    /\ UNCHANGED <<config, dataframes, appended_dict, summary_dict, raised, load_summary,
                   rename_dict, rename_summary, metadata_raw, otherVars>>
    /\ UNCHANGED loaderVars
    /\ UNCHANGED keywordSetVars
    /\ UNCHANGED pipelineVars
    /\ UNCHANGED loggerVars

\* export_summary_json, a failure of which is logged, and
\* return appended_dict, preprocess_summary
PreprocessReturn ==
    /\ pc = "built"
    /\ pc' = "returned"
    /\ UNCHANGED <<config, dataframes, appended_dict, summary_dict, raised, load_summary,
                   rename_dict, rename_summary, metadata_raw, preprocess_summary,
                   otherVars>>
    /\ UNCHANGED loaderVars
    /\ UNCHANGED keywordSetVars
    /\ UNCHANGED pipelineVars
    /\ UNCHANGED loggerVars

NextPreprocess ==
    \/ IngestDataframes
    \/ PreprocessRename
    \/ PreprocessAppend
    \/ SavePickleFiles
    \/ PreprocessAssemble
    \/ PreprocessBuild
    \/ PreprocessReturn

SpecPreprocess == InitPreprocess /\ [][NextPreprocess]_vars

\* The positions inside the call, each of which has a next step
InsidePreprocess ==
    {"start", "ingested", "renamed", "appended", "saved", "assembled", "built"}

\* The positions after the call: an exception left it, or it returned
AfterPreprocess == {"raised", "returned"}

\* The call moves on from a position inside it; every step of NextPreprocess is
\* one of these
PreprocessStep ==
    /\ pc \in InsidePreprocess
    /\ pc' \in InsidePreprocess \cup AfterPreprocess
    /\ pc' # pc

\* preprocess is one sequential call on one thread: it does not stay inside the
\* call forever
FairPreprocess == SpecPreprocess /\ WF_pc(PreprocessStep)

-----------------------------------------------------------------------------
(* Claims about the preprocess stage *)

\* The entries of the summary's folder_summaries
FolderSummaries == preprocess_summary.appended.folder_summaries

\* An entry states one outcome, the one the folder had
StatesOutcome(entry) ==
    \/ /\ entry.folder \in DOMAIN appended_dict
       /\ entry.skipped_due_to_mismatch = FALSE
       /\ entry.append_error = "None"
    \/ /\ entry.folder \notin DOMAIN appended_dict
       /\ entry.skipped_due_to_mismatch = TRUE
       /\ entry.append_error = "None"
    \/ /\ entry.folder \notin DOMAIN appended_dict
       /\ entry.skipped_due_to_mismatch = FALSE
       /\ entry.append_error # "None"

\* preprocess has returned a summary with one entry per loaded folder
ReturnedWithSummary ==
    /\ pc = "returned"
    /\ Len(FolderSummaries) = Len(dataframes)
    /\ \A i \in 1..Len(dataframes) :
          /\ FolderSummaries[i].folder = dataframes[i].folder
          /\ StatesOutcome(FolderSummaries[i])

\* C20: whatever the appends of the loaded folders did, also when none of them
\* was appended, preprocess eventually returns the appended mapping and a summary
\* with one entry per loaded folder that states whether the folder was appended,
\* skipped or failed
C20_PreprocessCompletes == <>ReturnedWithSummary

-----------------------------------------------------------------------------
(* The rename specification: rename_columns on the loaded tables, with or
   without a logger *)

InitRename ==
    /\ pc = "loaded"
    /\ raised = "None"
    /\ config \in PreprocessConfigs
    /\ dataframes \in PreprocessInputs
    /\ logger \in BOOLEAN
    /\ appended_dict = EmptyDict
    /\ summary_dict = EmptyDict
    /\ linked_dict = EmptyDict
    /\ linked_summary_dict = EmptyDict
    /\ aggregate_df = NoTable
    /\ aggregate_summary = EmptyDict
    /\ dedupe_df = NoTable
    /\ dedupe_summary = EmptyDict
    /\ count_df = NoTable
    /\ dedup_summary = EmptyDict
    /\ appended_in = EmptyDict
    /\ EnrichmentIdle
    /\ FinalizeIdle
    /\ KeywordsIdle
    /\ PreprocessIdle
    /\ PipelineIdle
    /\ KeywordSetIdle
    /\ LoaderIdle

\* rename_dict, rename_summary = rename_columns(config, raw_dict, logger)
CallRenameColumns ==
    /\ pc = "loaded"
    /\ pc' = "renamed"
    /\ rename_dict' = RenameColumnsByConfig(config, dataframes, logger).renamed_dict
    /\ rename_summary' = RenameColumnsByConfig(config, dataframes, logger).summary
    /\ UNCHANGED <<config, dataframes, appended_dict, summary_dict, raised, load_summary,
                   metadata_raw, preprocess_summary, logger, otherVars>>
    /\ UNCHANGED loaderVars
    /\ UNCHANGED keywordSetVars
    /\ UNCHANGED pipelineVars

NextRename == CallRenameColumns

SpecRename == InitRename /\ [][NextRename]_vars

-----------------------------------------------------------------------------
(* Claims about rename_columns *)

RenameMap == ConfigGet(config, "rename_columns_map", EmptyDict)

\* The name of a column after the renaming
MappedName(c) == IF c \in DOMAIN RenameMap THEN RenameMap[c] ELSE c

\* C24: in every loaded table of every category, the columns that are keys of
\* rename_columns_map carry their mapped name, every other column its own, each
\* at the position it had; the rows and their cell values are the same; and a
\* key that is no column of a table raises nothing.
C24_RenameFrame ==
    pc = "renamed" =>
        /\ raised = "None"
        /\ Len(rename_dict) = Len(dataframes)
        /\ \A i \in 1..Len(dataframes) :
               /\ rename_dict[i].folder = dataframes[i].folder
               /\ Len(rename_dict[i].files) = Len(dataframes[i].files)
               /\ \A k \in 1..Len(dataframes[i].files) :
                      LET before == dataframes[i].files[k].df
                          after == rename_dict[i].files[k].df
                      IN /\ rename_dict[i].files[k].name = dataframes[i].files[k].name
                         /\ after.cols = [j \in 1..NCols(before) |-> MappedName(before.cols[j])]
                         /\ NRows(after) = NRows(before)
                         /\ \A r \in 1..NRows(before) :
                                \A j \in 1..NCols(before) :
                                    after.rows[r][after.cols[j]] = before.rows[r][before.cols[j]]

\* A table with the columns A, B, C and two rows was renamed under the rules
\* A -> PROJECT_NUMBER and PMID -> C: A is renamed, B and C pass, PMID is absent
C24_Witness ==
    /\ pc = "renamed"
    /\ DOMAIN RenameMap = {"A", "PMID"}
    /\ \E i \in 1..Len(dataframes) :
           \E k \in 1..Len(dataframes[i].files) :
               /\ dataframes[i].files[k].df.cols = <<"A", "B", "C">>
               /\ NRows(dataframes[i].files[k].df) = 2
               /\ rename_dict[i].files[k].df.cols = <<"PROJECT_NUMBER", "B", "C">>

-----------------------------------------------------------------------------
(* The components that take a logger, each called with or without one *)

InitLogger == InitEnrich \/ InitRename

NextLogger == NextEnrich \/ NextRename

SpecLogger == InitLogger /\ [][NextLogger]_vars

\* C22: a component called with logger=None does not raise for it and returns
\* what it returns when a logger is supplied: enrich_with_keyword_metrics ends
\* without an AttributeError, and rename_columns returns the renamed tables and
\* the rename_summary of the call with a logger.
C22_LoggerOptional ==
    /\ (pc = "enriched" /\ ~logger) => raised # "AttributeError"
    /\ pc = "renamed" =>
           /\ rename_dict = RenameColumnsByConfig(config, dataframes, TRUE).renamed_dict
           /\ rename_summary = RenameColumnsByConfig(config, dataframes, TRUE).summary

-----------------------------------------------------------------------------
(* A pipeline run: preprocess, metrics, keywords and finalize called one after
   the other.  The tables are reduced to which categories exist; passes records
   the passes made over the data. *)

Categories == {"PRJ", "PRJABS", "PUBLINK", "Patents", "ClinicalStudies"}

\* The categories that were loaded, each with files of one column set or not
LoadedCategories ==
    UNION {[present -> BOOLEAN] : present \in SUBSET Categories}

InitPipeline ==
    /\ pc = "run"
    /\ raised = "None"
    /\ config \in AppendConfigs
    /\ categories \in LoadedCategories
    /\ pickles = {}
    /\ has_linked = FALSE
    /\ passes = <<>>
    /\ TablesIdle
    /\ EnrichmentIdle
    /\ FinalizeIdle
    /\ KeywordsIdle
    /\ PreprocessIdle
    /\ LoggerSupplied
    /\ KeywordSetIdle
    /\ LoaderIdle

restVars == <<tableVars, enrichVars, finalizeVars, keywordVars, preprocessVars, loggerVars>>

\* preprocess: rename_columns on the loaded tables
RunRenameColumns ==
    /\ pc = "run"
    /\ pc' = "renamed"
    /\ passes' = Append(passes, "rename")
    /\ UNCHANGED <<config, raised, categories, pickles, has_linked, restVars>>
    /\ UNCHANGED loaderVars
    /\ UNCHANGED keywordSetVars

\* preprocess: append_dataframes_by_folder, save_pickle_files and the summary,
\* which raises when no category was appended
RunAppend ==
    /\ pc = "renamed"
    /\ passes' = Append(passes, "append")
    /\ pickles' = {c \in DOMAIN categories :
                       categories[c] \/ ConfigGet(config, "force_append", FALSE)}
    /\ IF pickles' = {}
       THEN pc' = "raised" /\ raised' = "ValueError"
       ELSE pc' = "preprocessed" /\ UNCHANGED raised
    /\ UNCHANGED <<config, categories, has_linked, restVars>>
    /\ UNCHANGED loaderVars
    /\ UNCHANGED keywordSetVars

\* metrics: merge_linked_dataframes on the loaded pickles
RunMergeLinked ==
    /\ pc = "preprocessed"
    /\ pc' = "linked"
    /\ passes' = Append(passes, "link")
    /\ has_linked' = ({"PRJ", "PRJABS"} \subseteq pickles)
    /\ UNCHANGED <<config, raised, categories, pickles, restVars>>
    /\ UNCHANGED loaderVars
    /\ UNCHANGED keywordSetVars

\* metrics: aggregate_project_outputs, which raises without PRJ_PRJABS and
\* without one of the outcome categories
RunAggregate ==
    /\ pc = "linked"
    /\ passes' = Append(passes, "aggregate")
    /\ IF ~has_linked
       THEN pc' = "raised" /\ raised' = "KeyError"
       ELSE IF ~({"PUBLINK", "Patents", "ClinicalStudies"} \subseteq pickles)
       THEN pc' = "raised" /\ raised' = "UnboundLocalError"
       ELSE pc' = "aggregated" /\ UNCHANGED raised
    /\ UNCHANGED <<config, categories, pickles, has_linked, restVars>>
    /\ UNCHANGED loaderVars
    /\ UNCHANGED keywordSetVars

\* metrics: remove_true_duplicates_from_df on the aggregate table
RunRemoveTrueDuplicates ==
    /\ pc = "aggregated"
    /\ pc' = "deduplicated"
    /\ passes' = Append(passes, "aggregate_dedup")
    /\ UNCHANGED <<config, raised, categories, pickles, has_linked, restVars>>
    /\ UNCHANGED loaderVars
    /\ UNCHANGED keywordSetVars

\* keywords: enrich_with_keyword_metrics on the metrics table
RunEnrich ==
    /\ pc = "deduplicated"
    /\ pc' = "enriched"
    /\ passes' = Append(passes, "enrich")
    /\ UNCHANGED <<config, raised, categories, pickles, has_linked, restVars>>
    /\ UNCHANGED loaderVars
    /\ UNCHANGED keywordSetVars

\* finalize: filter_df on the keywords table
RunFilter ==
    /\ pc = "enriched"
    /\ pc' = "finalized"
    /\ passes' = Append(passes, "filter")
    /\ UNCHANGED <<config, raised, categories, pickles, has_linked, restVars>>
    /\ UNCHANGED loaderVars
    /\ UNCHANGED keywordSetVars

NextPipeline ==
    \/ RunRenameColumns
    \/ RunAppend
    \/ RunMergeLinked
    \/ RunAggregate
    \/ RunRemoveTrueDuplicates
    \/ RunEnrich
    \/ RunFilter

SpecPipeline == InitPipeline /\ [][NextPipeline]_vars

-----------------------------------------------------------------------------
(* Claims about the pipeline run *)

\* The passes of the claimed control flow, in its order
StageOrder ==
    <<"append", "file_dedup", "link", "aggregate", "aggregate_dedup", "enrich", "filter">>

\* C23: a full run has made the passes schema reconciliation, per-file
\* duplicate elimination, record linkage, outcome aggregation, aggregate-level
\* duplicate elimination, keyword enrichment and training filter, each once and
\* in this order.
C23_StageOrder ==
    [](pc = "finalized" =>
           SelectSeq(passes, LAMBDA s : s \in Range(StageOrder)) = StageOrder)

-----------------------------------------------------------------------------
(* Claims about the identifiers the aggregator joins on and the tables it is
   handed *)

\* The distinct normalized pairs of category number c whose PROJECT_NUMBER is
\* the normalized form of the one the entity row carries
PairsOfNormalized(c, number) ==
    {key \in Range(NormalizedKeys(c)) : key[1] = NormId(number)}

\* C26: every count column holds, in every row, the number of distinct
\* outcome composite keys whose PROJECT_NUMBER equals the row's PROJECT_NUMBER
\* once both are cast to string, trimmed and uppercased: an entity whose
\* identifier differs from the outcome rows' in case or whitespace only
\* receives their count, not 0.
C26_FormatInsensitiveCounts ==
    AggregateReturned =>
        \A c \in 1..3 :
            CountNames[c] \in ColSet(aggregate_df) =>
                \A i \in 1..NRows(aggregate_df) :
                    aggregate_df.rows[i][CountNames[c]]
                        = CountCell(Cardinality(
                              PairsOfNormalized(c, aggregate_df.rows[i]["PROJECT_NUMBER"])))

\* The linker and the aggregator, each on the tables drawn for it
InitMetrics == InitLink \/ InitAggregate

NextMetrics == NextLink \/ NextAggregate

SpecMetrics == InitMetrics /\ [][NextMetrics]_vars

\* C27: merge_linked_dataframes and aggregate_project_outputs leave the
\* category tables of the caller's mapping as they were passed, cell by cell.
C27_CallerTablesUnchanged ==
    pc \in {"linked", "aggregated"} => appended_dict = appended_in

\* C30: each per-category count table has at most one row per PROJECT_NUMBER,
\* and the aggregate table, after each left-merge and at return, has the rows
\* of the linked PRJ_PRJABS table, as many and in the same order.
C30_EntityRowsKept ==
    AggregateReturned =>
        LET linked == linked_dict["PRJ_PRJABS"]
            pub == PublicationBlock(linked_dict, appended_in)
            pat == PatentBlock(pub)
            SameRows(agg) ==
                /\ NRows(agg) = NRows(linked)
                /\ \A i \in 1..NRows(linked) :
                       \A col \in ColSet(linked) : agg.rows[i][col] = linked.rows[i][col]
        IN /\ \A c \in 1..3 :
                  LET counts == CountUniquePairs(appended_dict[OutcomeCategories[c]],
                                                 <<"PROJECT_NUMBER", OutcomeIdColumn[c]>>,
                                                 CountNames[c]).count_df
                  IN \A i, j \in 1..NRows(counts) :
                         counts.rows[i]["PROJECT_NUMBER"] = counts.rows[j]["PROJECT_NUMBER"]
                             => i = j
           /\ SameRows(pub.agg)
           /\ SameRows(pat.agg)
           /\ SameRows(aggregate_df)

\* Two entities were aggregated, the first with two distinct publications
C30_Witness ==
    /\ AggregateReturned
    /\ NRows(aggregate_df) = 2
    /\ aggregate_df.rows[1]["publication count"] = CountCell(2)
    /\ aggregate_df.rows[1]["APPLICATION_ID"] = StrCell(<<"1">>)
    /\ aggregate_df.rows[2]["APPLICATION_ID"] = StrCell(<<"2">>)

-----------------------------------------------------------------------------
(* Claims about the keyword enrichment of a table without rows *)

\* C28: on a table with zero rows and at least one configured text column,
\* enrich_with_keyword_metrics raises nothing and returns the zero-row table
\* with the three enrichment columns and a summary of 0 rows processed.
C28_EmptyTableEnriched ==
    (/\ pc = "enriched"
     /\ logger
     /\ NRows(enrich_df) = 0
     /\ AvailableCols(config, enrich_df) # <<>>) =>
        /\ raised = "None"
        /\ enrich_result # EmptyDict
        /\ enrich_result.kind = "pair"
        /\ NRows(enrich_result.df) = 0
        /\ {"total count", "total unique count", "flagged"} \subseteq ColSet(enrich_result.df)
        /\ enrich_result.summary.total_rows_processed = 0

-----------------------------------------------------------------------------
(* CSV loader: load_csv_files, read_csv_file, _read_and_store *)

\* df.empty: no rows or no columns
DfEmpty(df) == NRows(df) = 0 \/ NCols(df) = 0

\* The header cleaning of read_csv_file on one column name: a byte order mark
\* in front of the name is removed ("<BOM>" stands for the mark)
CleanHeader(col) == IF col = "<BOM>A" THEN "A" ELSE col

\* read_csv_file: the parsed table with cleaned column names; an empty file
\* (EmptyDataError) and any other failure give pd.DataFrame()
ReadCsvFile(file) ==
    IF ~file.readable THEN Table(<<>>, <<>>)
    ELSE LET df == file.table
             columns == [i \in 1..Len(df.cols) |-> CleanHeader(df.cols[i])]
         IN Table(columns,
                  [r \in 1..Len(df.rows) |->
                      [c \in Range(columns) |->
                          df.rows[r][df.cols[CHOOSE i \in 1..Len(columns) : columns[i] = c]]]])

\* _read_and_store: None (<<>>) for an empty table, else (key, df)
ReadAndStore(file) ==
    LET df == ReadCsvFile(file)
    IN IF DfEmpty(df) THEN <<>> ELSE <<file.stem, df>>

\* dataframes[folder_name][key] = df on the files of one folder
StoreFile(files, key, df) ==
    IF \E i \in 1..Len(files) : files[i].name = key
    THEN [i \in 1..Len(files) |->
             IF files[i].name = key THEN [files[i] EXCEPT !.df = df] ELSE files[i]]
    ELSE Append(files, [name |-> key, df |-> df])

\* The sequential branch on the files of one folder
RECURSIVE ReadSequentially(_, _)
ReadSequentially(files, csv_files) ==
    IF csv_files = <<>> THEN files
    ELSE LET df == ReadCsvFile(Head(csv_files))
         IN ReadSequentially(IF DfEmpty(df) THEN files
                             ELSE StoreFile(files, Head(csv_files).stem, df),
                             Tail(csv_files))

\* Faulty variant of NextResult: the results are taken as they complete
NextCompleted(k, done, order) == IF k <= Len(order) THEN {order[k]} ELSE {}

\* The file whose result executor.map yields as its k-th, once it is there:
\* the k-th submitted
NextResult(k, done, order) == IF k \in done THEN {k} ELSE {}

UseParallel(cfg) == ConfigGet(cfg, "parallel", FALSE)

\* The most CSV files of a folder
MaxCsvFiles == 3

\* File number k of a folder: unreadable, a header without rows, or one row;
\* the first file's header starts with a byte order mark
CsvFile(k, kind) ==
    LET header == IF k = 1 THEN "<BOM>A" ELSE "A"
    IN [stem |-> <<"f", Digit(k)>>,
        readable |-> kind # "unreadable",
        table |-> Table(<<header>>,
                        IF kind = "rows" THEN <<(header :> StrCell(<<Digit(k)>>))>>
                        ELSE <<>>)]

CsvKinds == {"rows", "header_only", "unreadable"}

\* A subfolder on disk: missing, or with the CSV files of the given kinds
DiskFolder(folder, exists, kinds) ==
    [folder |-> folder, exists |-> exists,
     csv_files |-> [k \in 1..Len(kinds) |-> CsvFile(k, kinds[k])]]

\* Two subfolders: the first with up to MaxCsvFiles files, the second with at
\* most one
Disks ==
    {<<prj, prjabs>> :
        prj \in {DiskFolder("PRJ", FALSE, <<>>)}
                    \cup {DiskFolder("PRJ", TRUE, kinds) :
                             kinds \in SeqsUpTo(CsvKinds, MaxCsvFiles)},
        prjabs \in {DiskFolder("PRJABS", FALSE, <<>>)}
                       \cup {DiskFolder("PRJABS", TRUE, kinds) :
                                kinds \in SeqsUpTo(CsvKinds, 1)}}

LoadConfigs ==
    {EmptyDict}
        \cup {("parallel" :> p) @@ ("workers" :> w) : p \in BOOLEAN, w \in 1..MaxWorkers}

InitLoad ==
    /\ pc = "load"
    /\ raised = "None"
    /\ config \in LoadConfigs
    /\ disk \in Disks
    /\ folder_at = 1
    /\ read_running = {}
    /\ read_futures = EmptyDict
    /\ read_order = <<>>
    /\ yielded = 0
    /\ load_result = <<>>
    /\ TablesIdle
    /\ EnrichmentIdle
    /\ FinalizeIdle
    /\ KeywordsIdle
    /\ PreprocessIdle
    /\ LoggerSupplied
    /\ PipelineIdle
    /\ KeywordSetIdle

idleVars == <<tableVars, enrichVars, finalizeVars, keywordVars, preprocessVars, loggerVars,
              pipelineVars, keywordSetVars>>

\* One round of the loop over subfolders: a missing folder and one without CSV
\* files are passed over; else the folder gets its empty mapping, and either
\* the tasks go to the executor or the files are read one after the other
LoadFolder ==
    /\ pc = "load"
    /\ folder_at <= Len(disk)
    /\ LET at == disk[folder_at]
       IN IF ~at.exists \/ at.csv_files = <<>>
          THEN /\ folder_at' = folder_at + 1
               /\ UNCHANGED <<pc, load_result, read_running, read_futures, read_order,
                              yielded>>
          ELSE IF UseParallel(config)
          THEN /\ pc' = "mapping_csv"
               /\ load_result' = Append(load_result, [folder |-> at.folder, files |-> <<>>])
               /\ read_running' = {}
               /\ read_futures' = EmptyDict
               /\ read_order' = <<>>
               /\ yielded' = 0
               /\ UNCHANGED folder_at
          ELSE /\ load_result' =
                      Append(load_result,
                             [folder |-> at.folder,
                              files |-> ReadSequentially(<<>>, at.csv_files)])
               /\ folder_at' = folder_at + 1
               /\ UNCHANGED <<pc, read_running, read_futures, read_order, yielded>>
    /\ UNCHANGED <<config, raised, disk, idleVars>>

\* A free reader thread takes the next file of the executor's queue
ReaderTake ==
    /\ pc = "mapping_csv"
    /\ Cardinality(read_running) < MaxWorkersOf(config)
    /\ \E c \in 1..Len(disk[folder_at].csv_files) :
           /\ c \notin read_running \cup DOMAIN read_futures
           /\ \A b \in 1..(c - 1) : b \in read_running \cup DOMAIN read_futures
           /\ read_running' = read_running \cup {c}
    /\ UNCHANGED <<pc, config, raised, disk, folder_at, read_futures, read_order, yielded,
                   load_result, idleVars>>

\* A reader thread finishes _read_and_store on its file and sets the future
ReaderFinish ==
    /\ pc = "mapping_csv"
    /\ \E c \in read_running :
           /\ read_running' = read_running \ {c}
           /\ read_futures' = read_futures @@ (c :> ReadAndStore(disk[folder_at].csv_files[c]))
           /\ read_order' = Append(read_order, c)
    /\ UNCHANGED <<pc, config, raised, disk, folder_at, yielded, load_result, idleVars>>

\* The loop over executor.map takes the next result and stores it unless it is
\* None; after the last result the with block ends and the folder is done
MapYield ==
    /\ pc = "mapping_csv"
    /\ yielded < Len(disk[folder_at].csv_files)
    /\ \E c \in NextResult(yielded + 1, DOMAIN read_futures, read_order) :
           LET result == read_futures[c]
               entry == load_result[Len(load_result)]
           IN load_result' =
                  IF result = <<>> THEN load_result
                  ELSE [load_result EXCEPT ![Len(load_result)] =
                           [entry EXCEPT !.files = StoreFile(entry.files, result[1], result[2])]]
    /\ yielded' = yielded + 1
    /\ IF yielded + 1 = Len(disk[folder_at].csv_files)
       THEN pc' = "load" /\ folder_at' = folder_at + 1
       ELSE UNCHANGED <<pc, folder_at>>
    /\ UNCHANGED <<config, raised, disk, read_running, read_futures, read_order, idleVars>>

\* return dataframes
LoadReturn ==
    /\ pc = "load"
    /\ folder_at > Len(disk)
    /\ pc' = "csv_loaded"
    /\ UNCHANGED <<config, raised, disk, folder_at, read_running, read_futures, read_order,
                   yielded, load_result, idleVars>>

NextLoad == LoadFolder \/ ReaderTake \/ ReaderFinish \/ MapYield \/ LoadReturn

SpecLoad == InitLoad /\ [][NextLoad]_vars

-----------------------------------------------------------------------------
(* Claims about the CSV loader *)

\* What the sequential branch loads from the subfolders
RECURSIVE SequentialLoad(_)
SequentialLoad(folders) ==
    IF folders = <<>> THEN <<>>
    ELSE LET at == Head(folders)
         IN IF ~at.exists \/ at.csv_files = <<>>
            THEN SequentialLoad(Tail(folders))
            ELSE <<[folder |-> at.folder, files |-> ReadSequentially(<<>>, at.csv_files)]>>
                     \o SequentialLoad(Tail(folders))

\* The files of a folder that read as a table with rows, in file list order
FilesWithRows(at) == SelectSeq(at.csv_files, LAMBDA file : ~DfEmpty(ReadCsvFile(file)))

\* C29: with use_parallel, load_csv_files returns what the sequential branch
\* returns, whatever the order in which the reader threads finish: the same
\* folders, and in each folder the files that are neither empty nor unreadable,
\* in file list order, each with the table read from it.
C29_ParallelAsSequential ==
    (pc = "csv_loaded" /\ UseParallel(config)) =>
        /\ load_result = SequentialLoad(disk)
        /\ \A e \in 1..Len(load_result) :
               \E d \in 1..Len(disk) :
                   /\ disk[d].folder = load_result[e].folder
                   /\ [i \in 1..Len(load_result[e].files) |-> load_result[e].files[i].name]
                          = [i \in 1..Len(FilesWithRows(disk[d])) |->
                                FilesWithRows(disk[d])[i].stem]
                   /\ \A i \in 1..Len(load_result[e].files) :
                          load_result[e].files[i].df = ReadCsvFile(FilesWithRows(disk[d])[i])

\* Three files were read in parallel, a later one finished before an earlier
\* one, and one of them was left out as empty or unreadable
C29_Witness ==
    /\ pc = "csv_loaded"
    /\ UseParallel(config)
    /\ Len(read_order) = 3
    /\ \E i, j \in 1..Len(read_order) : i < j /\ read_order[i] > read_order[j]
    /\ Len(load_result) = 1
    /\ Len(load_result[1].files) = 2
    /\ load_result[1].files[1].name = <<"f", "1">>

====
